---------------------------- MODULE Spec2Model ----------------------------
(***************************************************************************)
(* Session and request engine of whatsappweb-rs (src/src/connection.rs).   *)
(*                                                                         *)
(* Threads: the reconnect worker, which also runs the websocket event loop *)
(* (ws::connect blocks in the worker thread and calls the WsHandler from   *)
(* there), and the caller threads that use the public facade.  All session *)
(* state lives in WhatsappWebConnectionInner behind one std::sync::Mutex.  *)
(***************************************************************************)
EXTENDS Naturals, Integers, Sequences, FiniteSets, TLC

\* ------------------------------------------------------------------ bounds
MaxTag == 3            \* cap of messages_tag_counter in the model
MaxEpoch == 2          \* cap of epoch in the model
MaxAcks == 1           \* most message ids in one MessageAcks frame
MaxTime == 46          \* the clock stops after this many ticks
MaxStartDelay == 1     \* ticks that may pass before the worker's first connect

\* The clock counts ticks of 500 ms: every window of timeout.rs is a multiple.
MsPerTick == 500
TicksPerSecond == 1000 \div MsPerTick
PING_TIMEOUT == [min |-> 12000 \div MsPerTick, max |-> 16000 \div MsPerTick]
RESPONSE_TIMEOUT == [min |-> 3000 \div MsPerTick, max |-> 5500 \div MsPerTick]

Callers == {"c1", "c2"}
WORKER == "worker"
NoOwner == "none"

Keys == {"k1", "k2"}           \* (enc, mac) key pairs a session can hold
NoKeys == "nokeys"
NoSecret == [kind |-> "none"]

VARIABLES
    session_state,       \* SessionState: PendingNew | PendingPersistent | Established | Teardown
    persistent_session,  \* the keys of the PersistentSession held by the state, or NoKeys
    private_key,         \* PendingNew.private_key is Some
    user_jid,            \* inner.user_jid is Some
    websocket_state,     \* WebsocketState: Disconnected | Connected
    close_requested,     \* Sender::close was called on the current socket
    close_code,          \* the CloseCode of the latest Sender::close, or "none"
    tm,                  \* the TimeoutManager of WebsocketState::Connected, or NoTimer
    timeouts,            \* timeouts scheduled in the event loop: [token, at, announced]
    now,                 \* the clock, in ticks
    last_inbound,        \* the tick of the latest inbound frame (or of the connect)
    probes,              \* "?,," frames written since the latest inbound frame
    answered,            \* probes of this connection that an inbound frame followed
    requests,            \* inner.requests: set of <<tag, completion kind>>
    messages_tag_counter,
    epoch,
    lock,                \* owner of the Mutex around the inner state
    poisoned,            \* the Mutex is poisoned (a thread panicked holding it)
    worker_pc,           \* position of the reconnect worker / event loop thread
    evq,                 \* what the event-loop thread still has to run for the current event
    cur,                 \* the event in progress and the callbacks it has run so far
    c_pc,                \* position of each caller thread
    c_epoch,             \* the local `epoch` of send_app_message in each caller
    wire,                \* application-event frames written to the socket: [epoch, by]
    disconnect_returned, \* a caller's disconnect() has returned
    handler_after_disconnect, \* a handler callback ran after disconnect() returned
    est_secret,          \* the secret of the Conn event that paired the session
    calc                 \* a computation of a pure function: its input and results so far

vars == <<session_state, persistent_session, private_key, user_jid, websocket_state,
          close_requested, close_code, tm, timeouts, now, last_inbound, probes, answered,
          requests, messages_tag_counter, epoch, lock, poisoned,
          worker_pc, evq, cur, c_pc, c_epoch, wire, disconnect_returned,
          handler_after_disconnect, est_secret, calc>>

sessionVars == <<session_state, persistent_session, private_key, user_jid, est_secret>>
socketVars == <<websocket_state, close_requested, close_code>>
timerVars == <<tm, timeouts, last_inbound, probes, answered>>
connVars == <<socketVars, timerVars, now>>
requestVars == <<requests, messages_tag_counter>>
callerVars == <<c_pc, c_epoch>>
ghostVars == <<disconnect_returned, handler_after_disconnect>>

\* ------------------------------------------------------------------ crypto
\* X25519 with the session's ephemeral private key: one shared secret per peer key.
agree_ephemeral(peer_public) == <<"x25519", peer_public>>
\* hkdf::extract_and_expand: okm[0..32] decrypts, okm[32..64] authenticates.
hkdf_enc(shared) == <<"okm[0..32]", shared>>
hkdf_mac(shared) == <<"okm[32..64]", shared>>
hmac_sign(key, data) == <<key, data>>
hmac_verify(key, data, tag) == tag = hmac_sign(key, data)
aes_encrypt(key, plain) == <<key, plain>>
aes_decrypt(key, ct) == IF ct[1] = key THEN ct[2] ELSE NoKeys

\* A secret as the peer (or somebody else) builds it: secret[0..32] = pub,
\* secret[32..64] = hmac over pub || ciphertext, secret[64..144] = ciphertext.
MakeSecret(pub, sign_key, new_keys) ==
    LET ct == aes_encrypt(hkdf_enc(agree_ephemeral(pub)), new_keys)
    IN  [kind |-> "secret", pub |-> pub, ct |-> ct,
         hmac |-> hmac_sign(sign_key, <<pub, ct>>)]

\* The secrets of a Conn frame: none, one that is no base64, and for the
\* peer's public key "p1" those signed with the right okm[32..64] and those
\* signed by somebody who does not hold the peer's private key.
Secrets ==
    {NoSecret, [kind |-> "undecodable"]} \cup
    {MakeSecret("p1", k, n) :
        k \in {hkdf_mac(agree_ephemeral("p1")), hkdf_mac(agree_ephemeral("forged"))},
        n \in Keys}

calculate_secret_keys_unverified(secret) ==
    LET shared == agree_ephemeral(secret.pub)
    IN  [ok |-> TRUE, keys |-> secret.ct[2]]

calculate_secret_keys(secret) ==
    LET shared == agree_ephemeral(secret.pub)
    IN  IF hmac_verify(hkdf_mac(shared), <<secret.pub, secret.ct>>, secret.hmac)
        THEN [ok |-> TRUE, keys |-> aes_decrypt(hkdf_enc(shared), secret.ct)]
        ELSE [ok |-> FALSE, keys |-> NoKeys]

\* ------------------------------------------------------------------ the mutex
MutexFreeUnchecked(t) == TRUE

\* inner.lock(): the calling thread gets the guard only when nobody holds it.
MutexFree(t) == lock = NoOwner

\* ------------------------------------------------------------------ timeout.rs
NoTimer == [state |-> "none"]
NoTimeout == 0

\* AbsoluteTimeoutWindow::new: `now` is the clock cut to whole seconds.
AbsoluteTimeoutWindow(clock, window) ==
    LET secs == (clock \div TicksPerSecond) * TicksPerSecond
    IN  [min |-> secs + window.min, max |-> secs + window.max]

\* TimeoutManager::new; its sender.timeout(window.max, Token(2)) is NewTimeout.
TimeoutManager_new(clock, window, state) ==
    [window |-> AbsoluteTimeoutWindow(clock, window), state |-> state,
     timeout |-> NoTimeout, token |-> 2]

\* A timeout the event loop holds; on_new_timeout has announced its handle or not.
NewTimeout(clock, window, token) ==
    [token |-> token, at |-> clock + window.max, announced |-> FALSE]

arm_state_kept(t, clock, new_window, new_state) ==
    LET w == AbsoluteTimeoutWindow(clock, new_window)
    IN  IF t.window.max < w.min \/ t.window.max > w.max
        THEN [window |-> w, state |-> t.state, timeout |-> NoTimeout,
              token |-> t.token + 1]
        ELSE t

\* TimeoutManager::arm: the state always changes; the pending timeout is kept
\* when it falls into the new window, else a new one is scheduled under the
\* next token.
arm(t, clock, new_window, new_state) ==
    LET w == AbsoluteTimeoutWindow(clock, new_window)
    IN  IF t.window.max < w.min \/ t.window.max > w.max
        THEN [window |-> w, state |-> new_state, timeout |-> NoTimeout,
              token |-> t.token + 1]
        ELSE [t EXCEPT !.state = new_state]

\* arm's calls of the socket: sender.cancel of the handle it holds and
\* sender.timeout of the new one.
Arm(t, pending, new_window, new_state) ==
    /\ tm' = arm(t, now, new_window, new_state)
    /\ timeouts' = IF tm'.token # t.token
                   THEN {x \in pending : x.token # t.timeout}
                          \cup {NewTimeout(now, new_window, tm'.token)}
                   ELSE pending

\* TimeoutManager::disarm forgets the handle; nothing is cancelled.
disarm(t) == [t EXCEPT !.timeout = NoTimeout]

\* TimeoutManager::on_new_timeout
on_new_timeout_handle(t, token) ==
    IF token = t.token THEN [t EXCEPT !.timeout = token] ELSE t

on_timeout_state_off_by_one(t, token) ==
    IF token = t.token + 1 THEN t.state ELSE "None"

\* TimeoutManager::on_timeout: the state to act on, or "None".
on_timeout_state(t, token) == IF token = t.token THEN t.state ELSE "None"

\* ------------------------------------------------------------------ requests
Tags == 0..MaxTag
HasTag(tag) == \E r \in requests : r[1] = tag
KindOf(tag) == (CHOOSE r \in requests : r[1] = tag)[2]
\* HashMap::insert: an entry with the same key is replaced.
Insert(reqs, tag, kind) == {r \in reqs : r[1] # tag} \cup {<<tag, kind>>}
Remove(reqs, tag) == {r \in reqs : r[1] # tag}

\* ws_send_message: the frame is written and the completion registered only
\* while the websocket is connected.
ws_send_message(reqs, tag, kind) ==
    IF websocket_state = "Connected" THEN Insert(reqs, tag, kind) ELSE reqs

HandlerCallbacks == {"on_state_changed", "on_user_data_changed", "on_message",
                     "on_disconnect", "on_persistent_session_data_changed"}
UserCallbacks == HandlerCallbacks \cup {"qr_callback", "sink"}

TypeOK ==
    /\ session_state \in {"PendingNew", "PendingPersistent", "Established", "Teardown"}
    /\ persistent_session \in Keys \cup {NoKeys}
    /\ private_key \in BOOLEAN
    /\ user_jid \in BOOLEAN
    /\ websocket_state \in {"Disconnected", "Connected"}
    /\ close_requested \in BOOLEAN
    /\ close_code \in {"none", "Normal", "Abnormal"}
    /\ (websocket_state = "Connected") = (tm # NoTimer)
    /\ \A x \in timeouts : x.token \in 2..(MaxTime + 2) /\ x.at \in 0..(2 * MaxTime)
    /\ now \in 0..MaxTime
    /\ last_inbound \in 0..MaxTime
    /\ probes \in 0..MaxTime
    /\ answered \in 0..MaxTime
    /\ messages_tag_counter \in 0..MaxTag
    /\ epoch \in 0..MaxEpoch
    /\ lock \in Callers \cup {WORKER, NoOwner}
    /\ poisoned \in BOOLEAN
    /\ worker_pc \in {"start", "loop", "check", "sleep", "exit", "panicked", "deadlock"}
    /\ c_pc \in [Callers -> {"idle", "app_locked", "played_locked", "deadlock",
                             "disc_lock", "panicked"}]

\* No event of the socket is being handled.
NoEvent == [ev |-> "none", arg |-> "-", done |-> <<>>]

\* ------------------------------------------------------------------ Init
\* new(): PendingNew with a fresh key pair; with_persistent_session(): the
\* caller's credentials, PendingPersistent.  ws_connect has spawned the worker.
SessionInit ==
    /\ \/ /\ session_state = "PendingNew"
          /\ persistent_session = NoKeys
          /\ private_key = TRUE
       \/ /\ session_state = "PendingPersistent"
          /\ persistent_session \in Keys
          /\ private_key = FALSE
    /\ user_jid = FALSE
    /\ websocket_state = "Disconnected"
    /\ close_requested = FALSE
    /\ close_code = "none"
    /\ tm = NoTimer
    /\ timeouts = {}
    /\ now = 0
    /\ last_inbound = 0
    /\ probes = 0
    /\ answered = 0
    /\ requests = {}
    /\ messages_tag_counter = 0
    /\ epoch = 0
    /\ lock = NoOwner
    /\ poisoned = FALSE
    /\ worker_pc = "start"
    /\ evq = <<>>
    /\ cur = NoEvent
    /\ c_pc = [c \in Callers |-> "idle"]
    /\ c_epoch = [c \in Callers |-> 0]
    /\ wire = <<>>
    /\ disconnect_returned = FALSE
    /\ handler_after_disconnect = FALSE
    /\ est_secret = NoSecret

\* No pure function is being computed.
Init == SessionInit /\ calc = [fn |-> "none"]

\* ------------------------------------------------------------------ helpers
Cb(name, arg) == [cb |-> name, arg |-> arg]
Step(name) == [cb |-> name, arg |-> "-"]

\* A panic of the event-loop thread: the unwinding drops the guard, which
\* poisons the Mutex when the guard was alive, and ends the worker thread.
WorkerPanics(holding_guard) ==
    /\ worker_pc' = "panicked"
    /\ evq' = <<>>
    /\ cur' = NoEvent
    /\ lock' = IF lock = WORKER THEN NoOwner ELSE lock
    /\ poisoned' = (poisoned \/ holding_guard)

\* The event-loop thread is between two events of a connected socket.
LoopIdle ==
    /\ worker_pc = "loop"
    /\ evq = <<>>
    /\ websocket_state = "Connected"

\* What the handler has left to run once the guard is gone (drop(inner)), or
\* with the guard still alive (keep |-> TRUE).
Dispatch(ev, arg, items, keep) ==
    /\ evq' = items
    /\ cur' = IF items # <<>> THEN [ev |-> ev, arg |-> arg, done |-> <<>>] ELSE NoEvent
    /\ lock' = IF keep /\ items # <<>> THEN WORKER ELSE lock

\* ------------------------------------------------------------------ worker
\* ws_connect's loop body: ws::connect, whose factory calls ws_on_connected
\* under the lock; ws_on_connected sends the init request.
ws_on_connected ==
    /\ worker_pc \in {"start", "sleep"}
    /\ MutexFree(WORKER)
    /\ ~poisoned
    /\ websocket_state = "Disconnected"
    /\ tm' = TimeoutManager_new(now, PING_TIMEOUT, "Normal")
    /\ timeouts' = {NewTimeout(now, PING_TIMEOUT, tm'.token)}
    /\ last_inbound' = now
    /\ probes' = 0
    /\ answered' = 0
    /\ IF session_state \in {"PendingNew", "PendingPersistent"}
       THEN /\ messages_tag_counter < MaxTag
            /\ websocket_state' = "Connected"
            /\ close_requested' = FALSE
            /\ close_code' = "none"
            /\ messages_tag_counter' = messages_tag_counter + 1
            /\ requests' = Insert(requests, messages_tag_counter,
                                  IF session_state = "PendingNew" THEN "init_new" ELSE "init_pp")
            /\ worker_pc' = "loop"
            /\ UNCHANGED <<evq, cur, lock, poisoned>>
       ELSE \* `_ => unreachable!()` with the guard alive
            /\ websocket_state' = "Connected"
            /\ WorkerPanics(TRUE)
            /\ UNCHANGED <<close_requested, close_code, requests, messages_tag_counter>>
    /\ UNCHANGED <<sessionVars, now, calc, epoch, callerVars, wire, ghostVars>>

\* Any lock().unwrap() of the worker thread on a poisoned Mutex.
WorkerPoisoned ==
    /\ poisoned
    /\ worker_pc \in {"start", "sleep", "loop", "check"}
    /\ IF evq = <<>> THEN TRUE ELSE Head(evq).cb \notin UserCallbacks
    /\ MutexFree(WORKER)
    /\ WorkerPanics(FALSE)
    /\ UNCHANGED <<sessionVars, connVars, calc, requestVars, epoch, callerVars, wire, ghostVars>>

DroppedStateForgetful(s) == IF s = "Established" THEN "PendingNew" ELSE s

\* ws_on_disconnected: an Established session falls back to PendingPersistent
\* with its credentials; every other state stays.
DroppedState(s) == IF s = "Established" THEN "PendingPersistent" ELSE s

CloseCallbacksSilent(s) == <<>>

\* ws_on_disconnected returns early (`_ => return`) unless the session was
\* Established; else it drops the guard and calls on_state_changed.
CloseCallbacks(s) ==
    IF s = "Established" THEN <<Cb("on_state_changed", "Reconnecting")>> ELSE <<>>

\* A ws_on_disconnected that leaves the session state alone.
ws_on_disconnected_state_kept ==
    /\ LoopIdle
    /\ MutexFree(WORKER)
    /\ ~poisoned
    /\ websocket_state' = "Disconnected"
    /\ close_requested' = FALSE
    /\ close_code' = "none"
    /\ tm' = NoTimer
    /\ timeouts' = {}
    /\ worker_pc' = "check"
    /\ Dispatch("Close", "-", CloseCallbacks(session_state), FALSE)
    /\ UNCHANGED <<sessionVars, requestVars, now, calc, last_inbound, probes, answered,
                   epoch, poisoned, callerVars, wire, ghostVars>>

\* WsHandler::on_close -> ws_on_disconnected; ws::connect then returns.
ws_on_disconnected ==
    /\ LoopIdle
    /\ MutexFree(WORKER)
    /\ ~poisoned
    /\ websocket_state' = "Disconnected"
    /\ close_requested' = FALSE
    /\ close_code' = "none"
    /\ tm' = NoTimer
    /\ timeouts' = {}
    /\ worker_pc' = "check"
    /\ session_state' = DroppedState(session_state)
    /\ Dispatch("Close", "-", CloseCallbacks(session_state), FALSE)
    /\ UNCHANGED <<persistent_session, private_key, user_jid, est_secret, requestVars,
                   now, calc, last_inbound, probes, answered, epoch, poisoned, callerVars,
                   wire, ghostVars>>

\* After ws::connect returned: leave the loop on Teardown, else back off.
ws_connect_check ==
    /\ worker_pc = "check"
    /\ evq = <<>>
    /\ MutexFree(WORKER)
    /\ ~poisoned
    /\ worker_pc' = IF session_state = "Teardown" THEN "exit" ELSE "sleep"
    /\ UNCHANGED <<sessionVars, connVars, calc, requestVars, epoch, lock, poisoned, evq, cur,
                   callerVars, wire, ghostVars>>

\* ------------------------------------------------------------------ inbound frames
\* ws_on_message takes the lock first and arms the timer for the next ping;
\* every branch below runs under the lock.
RecvReady ==
    /\ LoopIdle
    /\ MutexFree(WORKER)
    /\ ~poisoned
    /\ Arm(tm, timeouts, PING_TIMEOUT, "Normal")
    /\ last_inbound' = now
    /\ probes' = 0
    /\ answered' = IF probes > 0 THEN answered + 1 ELSE answered

\* The Json responses of the peer: a status that is a number (200, or
\* another one) or none, and a ref token or none.
NoRef == "none"
JsonResponses ==
    {[status |-> s, ref |-> r] : s \in {"absent", "200", "401"}, r \in {NoRef, "1@ref"}}

\* json_protocol::parse_response_status: response["status"].as_u16() that is
\* None maps to Ok(()).
parse_response_status(response) == response.status \in {"absent", "200"}

parse_init_response_any_status(response) ==
    [ok |-> response.ref # NoRef, ref |-> response.ref]

\* json_protocol::parse_init_response: the status, then get_str("ref").
parse_init_response(response) ==
    IF parse_response_status(response) /\ response.ref # NoRef
    THEN [ok |-> TRUE, ref |-> response.ref]
    ELSE [ok |-> FALSE, ref |-> NoRef]

base64_encode(bytes) == "b64:" \o bytes

\* format!("{},{},{}", reference, base64::encode(&public_key), base64::encode(&client_id))
QrPayload(reference, public_key, client_id) ==
    reference \o "," \o base64_encode(public_key) \o "," \o base64_encode(client_id)

\* What the completion registered under `kind` does with a Json payload:
\* the init and login completions of ws_on_connected, the completions of the
\* facade's Json requests (json_sink), of get_messages_before (node_sink: a
\* Json payload hits `_ => unimplemented!()`), and `|_, _| {}` (noop).
JsonCompletion(kind, response) ==
    CASE kind = "init_new" /\ parse_init_response(response).ok ->
              <<[cb |-> "init_new", arg |-> parse_init_response(response).ref]>>
      [] kind = "init_pp" /\ parse_response_status(response) -> <<Step("init_pp")>>
      [] kind = "login" /\ ~parse_response_status(response) -> <<Cb("on_state_changed", "Disconnecting"),
                                    Step("teardown"),
                                    Cb("on_disconnect", "Removed")>>
      [] kind = "json_sink" -> <<Cb("sink", "json")>>
      [] kind = "node_sink" -> <<Step("unimplemented")>>
      [] OTHER -> <<>>

\* A Json frame whose tag has an entry: the entry is removed, the guard
\* dropped and the completion called.
RecvResponse(tag, response) ==
    /\ RecvReady
    /\ HasTag(tag)
    /\ requests' = Remove(requests, tag)
    /\ Dispatch(CASE response.status = "200" -> "JsonOk"
                   [] response.status = "absent" -> "JsonNoStatus"
                   [] OTHER -> "JsonErr",
                KindOf(tag), JsonCompletion(KindOf(tag), response), FALSE)
    /\ UNCHANGED <<sessionVars, socketVars, now, calc, messages_tag_counter, epoch, poisoned,
                   worker_pc, callerVars, wire, ghostVars>>

ConnCallbacksCredentialsFirst ==
    <<Cb("on_persistent_session_data_changed", "-"),
      Cb("on_state_changed", "Connected"),
      Cb("on_user_data_changed", "UserJid")>>

\* The handler calls of a Conn frame that handle_server_conn accepted.
ConnCallbacks == <<Cb("on_state_changed", "Connected"),
                   Cb("on_persistent_session_data_changed", "-"),
                   Cb("on_user_data_changed", "UserJid")>>

\* ["Conn", {...}] with a tag nobody waits for: handle_server_conn.
handle_server_conn(secret) ==
    /\ RecvReady
    /\ CASE session_state = "PendingNew" /\ secret.kind # "secret" ->
              \* secret missing or not base64: Err before the key is taken
              /\ Dispatch("-", "-", <<>>, FALSE)
              /\ UNCHANGED <<sessionVars, poisoned, worker_pc>>
         [] session_state = "PendingNew" /\ secret.kind = "secret" /\ ~private_key ->
              \* private_key.take().unwrap() on None
              /\ WorkerPanics(TRUE)
              /\ UNCHANGED sessionVars
         [] session_state = "PendingNew" /\ secret.kind = "secret" /\ private_key ->
              LET r == calculate_secret_keys(secret)
              IN  /\ private_key' = FALSE
                  /\ IF r.ok
                     THEN /\ user_jid' = TRUE
                          /\ persistent_session' = r.keys
                          /\ session_state' = "Established"
                          /\ est_secret' = secret
                          /\ Dispatch("Conn", "-", ConnCallbacks, FALSE)
                     ELSE /\ Dispatch("-", "-", <<>>, FALSE)
                          /\ UNCHANGED <<user_jid, persistent_session, session_state,
                                         est_secret>>
                  /\ UNCHANGED <<poisoned, worker_pc>>
         [] session_state = "PendingPersistent" ->
              /\ user_jid' = TRUE
              /\ session_state' = "Established"
              /\ Dispatch("Conn", "-", ConnCallbacks, FALSE)
              /\ UNCHANGED <<persistent_session, private_key, est_secret, poisoned,
                             worker_pc>>
         [] OTHER ->
              \* "Session already established but received conn packet"
              /\ Dispatch("-", "-", <<>>, FALSE)
              /\ UNCHANGED <<sessionVars, poisoned, worker_pc>>
    /\ UNCHANGED <<socketVars, now, calc, requestVars, epoch, callerVars, wire, ghostVars>>

\* The challenges of the peer, base64-decoded.
Challenges == {"challenge"}

sign_challenge_unkeyed(mac_key, challenge) == "hmac(" \o challenge \o ")"

\* crypto::sign_challenge: HMAC-SHA256 of the challenge under the mac key.
sign_challenge(mac_key, challenge) == "hmac(" \o mac_key \o "," \o challenge \o ")"

\* json_protocol::build_challenge_response
build_challenge_response(token, id, signature) ==
    "[admin,challenge," \o base64_encode(signature) \o "," \o token \o "," \o id \o "]"

\* ["Cmd", {type: "challenge"}]: handle_server_challenge answers only in
\* PendingPersistent.
\* `cur` keeps the frame that was written until the next event; the fields of
\* the PersistentSession are named after the keys it holds.
handle_server_challenge(challenge) ==
    /\ RecvReady
    /\ session_state = "PendingPersistent"
    /\ messages_tag_counter < MaxTag
    /\ messages_tag_counter' = messages_tag_counter + 1
    /\ requests' = ws_send_message(requests, messages_tag_counter, "noop")
    /\ cur' = [ev |-> "Challenge",
               arg |-> build_challenge_response(
                          persistent_session \o ".server_token",
                          base64_encode(persistent_session \o ".client_id"),
                          sign_challenge(persistent_session \o ".mac", challenge)),
               done |-> <<>>]
    /\ UNCHANGED <<sessionVars, socketVars, now, calc, epoch, lock, poisoned, worker_pc, evq,
                   callerVars, wire, ghostVars>>

DisconnectReasonAlwaysRemoved(kind) == "Removed"

\* `if kind.is_some() { Replaced } else { Removed }`
DisconnectReason(kind) == IF kind THEN "Replaced" ELSE "Removed"

\* ["Cmd", {type: "disconnect", kind?}]: handle_server_disconnect.
handle_server_disconnect(kind) ==
    /\ RecvReady
    /\ session_state' = "Teardown"
    /\ persistent_session' = NoKeys
    /\ private_key' = FALSE
    /\ Dispatch("Disconnect", IF kind THEN "kind" ELSE "-",
                <<Cb("on_state_changed", "Disconnecting"),
                  Cb("on_disconnect", DisconnectReason(kind))>>, FALSE)
    /\ UNCHANGED <<user_jid, est_secret, socketVars, now, calc, requestVars, epoch, poisoned,
                   worker_pc, callerVars, wire, ghostVars>>

\* A frame nothing is done with: the "!..." answer to the probe (Pong), an
\* empty payload, a server message without a branch (`_ => {}`).  The timer
\* was armed all the same.
RecvPong ==
    /\ RecvReady
    /\ UNCHANGED <<sessionVars, socketVars, now, calc, requestVars, epoch, lock, poisoned,
                   worker_pc, evq, cur, callerVars, wire, ghostVars>>

\* A frame that does not parse: text without ',' that does not start with
\* '!', text whose payload is not JSON, binary without ',' (all three make
\* WebsocketMessage::deserialize return Err, which ws_on_message unwraps), or a
\* binary payload that is no node (Node::deserialize(..).unwrap()).  The
\* guard is alive and the timer was armed.
RecvMalformed ==
    /\ RecvReady
    /\ WorkerPanics(TRUE)
    /\ UNCHANGED <<sessionVars, socketVars, now, calc, requestVars, epoch, callerVars, wire,
                   ghostVars>>

\* Presence, GroupIntroduce, GroupParticipantsChange: drop(inner), then the
\* callback.
RecvUserData ==
    /\ RecvReady
    /\ Dispatch("UserData", "-", <<Cb("on_user_data_changed", "event")>>, FALSE)
    /\ UNCHANGED <<sessionVars, socketVars, now, calc, requestVars, epoch, poisoned, worker_pc,
                   callerVars, wire, ghostVars>>

\* Msg/MsgInfo ack (n = 1) and acks (n ids): the callback's argument reads
\* inner.user_jid, so the guard is alive across the callbacks.
RecvMessageAck(n) ==
    /\ RecvReady
    /\ IF n > 0 /\ ~user_jid
       THEN WorkerPanics(TRUE)        \* inner.user_jid.as_ref().unwrap()
       ELSE /\ Dispatch("MessageAck", "-",
                     [i \in 1..n |-> Cb("on_user_data_changed", "MessageAck")], TRUE)
            /\ UNCHANGED <<poisoned, worker_pc>>
    /\ UNCHANGED <<sessionVars, socketVars, now, calc, requestVars, epoch, callerVars, wire,
                   ghostVars>>

NodeCallbacks(content) ==
    CASE content = "message" -> <<Cb("on_message", "-")>>
      [] content = "contacts" -> <<Cb("on_user_data_changed", "ContactsInitial")>>
      [] OTHER -> <<>>

\* A binary frame: decrypt_binary_message(...).unwrap(), then the completion
\* of its tag or the events of the node.
RecvBinary(tag, hmac_ok, content) ==
    /\ RecvReady
    /\ IF session_state # "Established" \/ ~hmac_ok
       THEN /\ WorkerPanics(TRUE)
            /\ UNCHANGED requests
       ELSE /\ UNCHANGED <<poisoned, worker_pc>>
            /\ IF HasTag(tag)
               THEN /\ requests' = Remove(requests, tag)
                    /\ Dispatch("NodeResponse", KindOf(tag),
                                IF KindOf(tag) = "node_sink" THEN <<Cb("sink", "node")>> ELSE <<>>,
                                FALSE)
               ELSE /\ UNCHANGED requests
                    /\ Dispatch("Node", content, NodeCallbacks(content), FALSE)
    /\ UNCHANGED <<sessionVars, socketVars, now, calc, messages_tag_counter, epoch, callerVars,
                   wire, ghostVars>>

\* ------------------------------------------------------------------ timer events
\* WsHandler::on_new_timeout: the event loop has scheduled a timeout and hands
\* over its handle.
on_new_timeout ==
    /\ LoopIdle
    /\ MutexFree(WORKER)
    /\ ~poisoned
    /\ \E x \in timeouts :
          /\ ~x.announced
          /\ timeouts' = (timeouts \ {x}) \cup {[x EXCEPT !.announced = TRUE]}
          /\ tm' = on_new_timeout_handle(tm, x.token)
    /\ UNCHANGED <<sessionVars, socketVars, last_inbound, probes, answered, now, calc,
                   requestVars, epoch, lock, poisoned, worker_pc, evq, cur, callerVars, wire,
                   ghostVars>>

\* An on_timeout that acts on the timer state whatever the token is.
on_timeout_any_token ==
    /\ LoopIdle
    /\ MutexFree(WORKER)
    /\ ~poisoned
    /\ \E x \in timeouts :
          /\ x.announced
          /\ x.at <= now
          /\ LET t == [tm EXCEPT !.timeout = NoTimeout]
             IN  IF tm.state = "Normal"
                 THEN /\ probes' = probes + 1
                      /\ Arm(t, timeouts \ {x}, RESPONSE_TIMEOUT, "Deathline")
                      /\ UNCHANGED socketVars
                 ELSE /\ close_requested' = TRUE
                      /\ close_code' = "Abnormal"
                      /\ tm' = t
                      /\ timeouts' = timeouts \ {x}
                      /\ UNCHANGED <<websocket_state, probes>>
    /\ UNCHANGED <<sessionVars, last_inbound, answered, now, calc, requestVars, epoch, lock,
                   poisoned, worker_pc, evq, cur, callerVars, wire, ghostVars>>

\* WsHandler::on_timeout -> Inner::on_timeout: a scheduled timeout expires.
\* With the current token: in Normal the probe "?,," is written and the
\* Deathline armed, in Deathline the socket is closed (CloseCode::Abnormal).
on_timeout ==
    /\ LoopIdle
    /\ MutexFree(WORKER)
    /\ ~poisoned
    /\ \E x \in timeouts :
          /\ x.announced
          /\ x.at <= now
          /\ LET st == on_timeout_state(tm, x.token)
                 t == IF st = "None" THEN tm ELSE [tm EXCEPT !.timeout = NoTimeout]
             IN  CASE st = "Normal" ->
                        /\ probes' = probes + 1
                        /\ Arm(t, timeouts \ {x}, RESPONSE_TIMEOUT, "Deathline")
                        /\ UNCHANGED socketVars
                   [] st = "Deathline" ->
                        /\ close_requested' = TRUE
                        /\ close_code' = "Abnormal"
                        /\ tm' = t
                        /\ timeouts' = timeouts \ {x}
                        /\ UNCHANGED <<websocket_state, probes>>
                   [] OTHER ->
                        /\ tm' = t
                        /\ timeouts' = timeouts \ {x}
                        /\ UNCHANGED <<socketVars, probes>>
    /\ UNCHANGED <<sessionVars, last_inbound, answered, now, calc, requestVars, epoch, lock,
                   poisoned, worker_pc, evq, cur, callerVars, wire, ghostVars>>

\* Half a second passes.  While the event loop is running it has scheduled
\* and announced every timeout asked for, and fired every timeout that is
\* due, before the clock moves on.
Tick ==
    /\ now < MaxTime
    /\ worker_pc = "start" => now < MaxStartDelay
    /\ (worker_pc = "loop" /\ websocket_state = "Connected")
          => \A x \in timeouts : x.announced /\ x.at > now
    /\ now' = now + 1
    /\ UNCHANGED <<calc, sessionVars, socketVars, timerVars, requestVars, epoch, lock,
                   poisoned, worker_pc, evq, cur, callerVars, wire, ghostVars>>

\* ------------------------------------------------------------------ running the queue
\* The guard of a handler that kept it dies when the handler returns.
PopEvq ==
    /\ evq' = Tail(evq)
    /\ cur' = IF Tail(evq) = <<>> THEN NoEvent ELSE [cur EXCEPT !.done = Append(@, Head(evq))]
    /\ lock' = IF lock = WORKER /\ Tail(evq) = <<>> THEN NoOwner ELSE lock

ws_disconnect_socket_kept ==
    /\ session_state' = "Teardown"
    /\ persistent_session' = NoKeys
    /\ private_key' = FALSE
    /\ UNCHANGED <<user_jid, est_secret, connVars, calc>>

\* The critical section of ws_disconnect.
ws_disconnect ==
    /\ session_state' = "Teardown"
    /\ persistent_session' = NoKeys
    /\ private_key' = FALSE
    /\ close_requested' = (close_requested \/ websocket_state = "Connected")
    /\ close_code' = IF websocket_state = "Connected" THEN "Normal" ELSE close_code
    /\ tm' = IF websocket_state = "Connected" THEN disarm(tm) ELSE tm
    /\ UNCHANGED <<user_jid, est_secret, websocket_state, timeouts, last_inbound,
                   probes, answered, now, calc>>

\* The event-loop thread calls a callback of the user.
RunCallback ==
    /\ worker_pc \in {"loop", "check"}
    /\ evq # <<>>
    /\ Head(evq).cb \in UserCallbacks
    /\ PopEvq
    /\ handler_after_disconnect' =
          (handler_after_disconnect
             \/ (disconnect_returned /\ Head(evq).cb \in HandlerCallbacks))
    /\ UNCHANGED <<sessionVars, connVars, calc, requestVars, epoch, poisoned, worker_pc,
                   callerVars, wire, disconnect_returned>>

\* The callback calls into the facade (connection.state(), send_message, ...)
\* while its own thread holds the guard: that lock() never returns, it blocks
\* or it panics.
CallbackReenters ==
    /\ worker_pc \in {"loop", "check"}
    /\ evq # <<>>
    /\ Head(evq).cb \in UserCallbacks
    /\ lock = WORKER
    /\ \/ /\ worker_pc' = "deadlock"
          /\ UNCHANGED <<lock, poisoned, evq, cur>>
       \/ WorkerPanics(TRUE)
    /\ UNCHANGED <<sessionVars, connVars, calc, requestVars, epoch, callerVars, wire,
                   ghostVars>>

\* The completion of the init request of a PendingNew session: it locks and
\* calls qr_callback inside the match on the locked state, with the public
\* key and the client id that WhatsappWebConnection::new made.
RunInitNew ==
    /\ worker_pc = "loop"
    /\ evq # <<>>
    /\ Head(evq).cb = "init_new"
    /\ MutexFree(WORKER)
    /\ ~poisoned
    /\ IF session_state = "PendingNew"
       THEN /\ evq' = <<Cb("qr_callback", QrPayload(Head(evq).arg, "public_key", "client_id"))>>
            /\ cur' = [cur EXCEPT !.done = Append(@, Head(evq))]
            /\ lock' = WORKER
            /\ UNCHANGED <<poisoned, worker_pc>>
       ELSE WorkerPanics(TRUE)        \* `_ => unreachable!()`
    /\ UNCHANGED <<sessionVars, connVars, calc, requestVars, epoch, callerVars, wire,
                   ghostVars>>

\* The completion of the init request of a PendingPersistent session: it locks
\* and sends the takeover login.
RunInitPersistent ==
    /\ worker_pc = "loop"
    /\ evq # <<>>
    /\ Head(evq) = Step("init_pp")
    /\ MutexFree(WORKER)
    /\ ~poisoned
    /\ IF session_state = "PendingPersistent"
       THEN /\ messages_tag_counter < MaxTag
            /\ messages_tag_counter' = messages_tag_counter + 1
            /\ requests' = ws_send_message(requests, messages_tag_counter, "login")
            /\ PopEvq
            /\ UNCHANGED <<poisoned, worker_pc>>
       ELSE /\ WorkerPanics(TRUE)     \* `_ => unreachable!()`
            /\ UNCHANGED requestVars
    /\ UNCHANGED <<sessionVars, connVars, calc, epoch, callerVars, wire, ghostVars>>

\* connection.ws_disconnect() called by the completion of a rejected login.
RunTeardown ==
    /\ worker_pc = "loop"
    /\ evq # <<>>
    /\ Head(evq) = Step("teardown")
    /\ MutexFree(WORKER)
    /\ ~poisoned
    /\ ws_disconnect
    /\ PopEvq
    /\ UNCHANGED <<requestVars, epoch, poisoned, worker_pc, callerVars, wire, ghostVars>>

\* The completion of get_messages_before called with a Json payload:
\* unimplemented!(), after the guard was dropped.
RunUnimplemented ==
    /\ worker_pc = "loop"
    /\ evq # <<>>
    /\ Head(evq) = Step("unimplemented")
    /\ WorkerPanics(FALSE)
    /\ UNCHANGED <<sessionVars, connVars, calc, requestVars, epoch, callerVars, wire,
                   ghostVars>>

\* ------------------------------------------------------------------ facade
SendAppFrameAnyState(c, e, kind) ==
    /\ messages_tag_counter < MaxTag
    /\ messages_tag_counter' = messages_tag_counter + 1
    /\ requests' = ws_send_message(requests, messages_tag_counter, kind)
    /\ wire' = IF websocket_state = "Connected"
               THEN Append(wire, [epoch |-> e, by |-> c])
               ELSE wire

\* send_binary_message + ws_send_message for an application message that
\* carries `e` as its epoch attribute: nothing happens unless Established.
SendAppFrame(c, e, kind) ==
    IF session_state = "Established"
    THEN /\ messages_tag_counter < MaxTag
         /\ messages_tag_counter' = messages_tag_counter + 1
         /\ requests' = ws_send_message(requests, messages_tag_counter, kind)
         /\ wire' = IF websocket_state = "Connected"
                    THEN Append(wire, [epoch |-> e, by |-> c])
                    ELSE wire
    ELSE UNCHANGED <<requestVars, wire>>

\* WhatsappWebConnection::send_app_message (set_presence, send_message_read,
\* get_messages_before, ...), first half: lock, then inner.send_app_message
\* increments the epoch and reads it.
AppLock(c) ==
    /\ c_pc[c] = "idle"
    /\ MutexFree(c)
    /\ ~poisoned
    /\ epoch < MaxEpoch
    /\ lock' = c
    /\ epoch' = epoch + 1
    /\ c_epoch' = [c_epoch EXCEPT ![c] = epoch + 1]
    /\ c_pc' = [c_pc EXCEPT ![c] = "app_locked"]
    /\ UNCHANGED <<sessionVars, connVars, calc, requestVars, poisoned, worker_pc, evq, cur, wire,
                   ghostVars>>

\* Second half: serialize with the epoch read, send, register, drop the guard.
AppSend(c, kind) ==
    /\ c_pc[c] = "app_locked"
    /\ SendAppFrame(c, c_epoch[c], kind)
    /\ lock' = IF lock = c THEN NoOwner ELSE lock
    /\ c_pc' = [c_pc EXCEPT ![c] = "idle"]
    /\ c_epoch' = [c_epoch EXCEPT ![c] = 0]
    /\ UNCHANGED <<sessionVars, connVars, calc, epoch, poisoned, worker_pc, evq, cur, ghostVars>>

\* send_message_played, first half: takes the lock and increments the epoch.
send_message_played(c) ==
    /\ c_pc[c] = "idle"
    /\ MutexFree(c)
    /\ ~poisoned
    /\ epoch < MaxEpoch
    /\ epoch' = epoch + 1
    /\ lock' = c
    /\ c_pc' = [c_pc EXCEPT ![c] = "played_locked"]
    /\ UNCHANGED <<sessionVars, connVars, calc, requestVars, poisoned, worker_pc, evq, cur,
                   c_epoch, wire, ghostVars>>

\* Second half: with the guard still alive it calls the facade's
\* send_app_message, whose first statement is self.inner.lock().  A lock() of
\* std::sync::Mutex on the thread that holds it never returns: it blocks, or
\* it panics (which drops the first guard and poisons the Mutex).
send_message_played_relock(c) ==
    /\ c_pc[c] = "played_locked"
    /\ lock = c
    /\ \/ /\ c_pc' = [c_pc EXCEPT ![c] = "deadlock"]
          /\ UNCHANGED <<lock, poisoned>>
       \/ /\ c_pc' = [c_pc EXCEPT ![c] = "panicked"]
          /\ lock' = NoOwner
          /\ poisoned' = TRUE
    /\ UNCHANGED <<sessionVars, connVars, calc, requestVars, epoch, worker_pc, evq, cur,
                   c_epoch, wire, ghostVars>>

\* The facade's send_json_message (request_file_upload, get_profile_picture,
\* get_group_metadata, subscribe_presence, ...).
send_json_message(c, kind) ==
    /\ c_pc[c] = "idle"
    /\ MutexFree(c)
    /\ ~poisoned
    /\ messages_tag_counter < MaxTag
    /\ messages_tag_counter' = messages_tag_counter + 1
    /\ requests' = ws_send_message(requests, messages_tag_counter, kind)
    /\ UNCHANGED <<sessionVars, connVars, calc, epoch, lock, poisoned, worker_pc, evq, cur,
                   callerVars, wire, ghostVars>>

\* The facade's send_json_message when the write fails: sender.send returns
\* Err (the queue of the event loop is full, or the loop is gone) and
\* ws_send_message unwraps it with the guard alive, before the insert.
send_json_message_fails(c) ==
    /\ c_pc[c] = "idle"
    /\ MutexFree(c)
    /\ ~poisoned
    /\ websocket_state = "Connected"
    /\ messages_tag_counter < MaxTag
    /\ messages_tag_counter' = messages_tag_counter + 1
    /\ poisoned' = TRUE
    /\ c_pc' = [c_pc EXCEPT ![c] = "panicked"]
    /\ UNCHANGED <<sessionVars, connVars, calc, requests, epoch, lock, worker_pc, evq, cur,
                   c_epoch, wire, ghostVars>>

\* group_create / group_participants_change -> send_group_command.
send_group_command(c) ==
    /\ c_pc[c] = "idle"
    /\ MutexFree(c)
    /\ messages_tag_counter < MaxTag
    /\ ~poisoned
    /\ IF ~user_jid
       THEN \* self.user_jid.clone().unwrap() under the guard
            /\ messages_tag_counter' = messages_tag_counter + 1
            /\ poisoned' = TRUE
            /\ c_pc' = [c_pc EXCEPT ![c] = "panicked"]
            /\ UNCHANGED <<requests, epoch, wire>>
       ELSE /\ epoch < MaxEpoch
            /\ epoch' = epoch + 1
            /\ messages_tag_counter' = messages_tag_counter + 1
            /\ IF session_state = "Established"
               THEN /\ requests' = ws_send_message(requests, messages_tag_counter, "noop")
                    /\ wire' = IF websocket_state = "Connected"
                               THEN Append(wire, [epoch |-> epoch + 1, by |-> c])
                               ELSE wire
               ELSE UNCHANGED <<requests, wire>>
            /\ UNCHANGED <<poisoned, c_pc>>
    /\ UNCHANGED <<sessionVars, connVars, calc, lock, worker_pc, evq, cur, c_epoch, ghostVars>>

\* disconnect(): first the handler hears Disconnecting, on the caller's thread
\* and before the lock is taken.
DisconnectBegin(c) ==
    /\ c_pc[c] = "idle"
    /\ c_pc' = [c_pc EXCEPT ![c] = "disc_lock"]
    /\ UNCHANGED <<sessionVars, connVars, calc, requestVars, epoch, lock, poisoned,
                   worker_pc, evq, cur, c_epoch, wire, ghostVars>>

\* Then the critical section of ws_disconnect, and the return.
DisconnectFinish(c) ==
    /\ c_pc[c] = "disc_lock"
    /\ MutexFree(c)
    /\ ~poisoned
    /\ ws_disconnect
    /\ c_pc' = [c_pc EXCEPT ![c] = "idle"]
    /\ disconnect_returned' = TRUE
    /\ UNCHANGED <<requestVars, epoch, lock, poisoned, worker_pc, evq, cur, c_epoch, wire,
                   handler_after_disconnect>>

\* The positions of a caller whose next statement is self.inner.lock().
AtLockCall == {"played_locked", "disc_lock"}

\* lock().unwrap() of a facade operation on a poisoned Mutex.
CallerPoisoned(c) ==
    /\ poisoned
    /\ c_pc[c] \in {"idle", "disc_lock"}
    /\ MutexFree(c)
    /\ c_pc' = [c_pc EXCEPT ![c] = "panicked"]
    /\ UNCHANGED <<sessionVars, connVars, calc, requestVars, epoch, lock, poisoned,
                   worker_pc, evq, cur, c_epoch, wire, ghostVars>>

\* ------------------------------------------------------------------ node_wire.rs
LIST_EMPTY == 0
DICTIONARY_0 == 236
DICTIONARY_3 == 239
LIST_8 == 248
LIST_16 == 249
JID_PAIR == 250
HEX_8 == 251
BINARY_8 == 252
BINARY_20 == 253
BINARY_32 == 254
NIBBLE_8 == 255

\* A str is the sequence of its bytes.  The strings of the model are ASCII.
Str(string) ==
    CASE string = "action" -> <<97, 99, 116, 105, 111, 110>>
      [] string = "chat" -> <<99, 104, 97, 116>>
      [] string = "delete" -> <<100, 101, 108, 101, 116, 101>>
      [] string = "g.us" -> <<103, 46, 117, 115>>
      [] string = "jid" -> <<106, 105, 100>>
      [] string = "c.us" -> <<99, 46, 117, 115>>
      [] string = "type" -> <<116, 121, 112, 101>>
      [] string = "xyz" -> <<120, 121, 122>>
      [] string = "epoch" -> <<101, 112, 111, 99, 104>>
      [] string = "set" -> <<115, 101, 116>>
      [] string = "last" -> <<108, 97, 115, 116>>
      [] string = "before" -> <<98, 101, 102, 111, 114, 101>>
      [] string = "relay" -> <<114, 101, 108, 97, 121>>
      [] string = "add" -> <<97, 100, 100>>
      [] string = "remote" -> <<114, 101, 109, 111, 116, 101>>
      [] string = "remove" -> <<114, 101, 109, 111, 118, 101>>
      [] string = "promote" -> <<112, 114, 111, 109, 111, 116, 101>>
      [] string = "demote" -> <<100, 101, 109, 111, 116, 101>>
      [] string = "create" -> <<99, 114, 101, 97, 116, 101>>
      [] string = "subject" -> <<115, 117, 98, 106, 101, 99, 116>>
      [] string = "author" -> <<97, 117, 116, 104, 111, 114>>
      [] string = "id" -> <<105, 100>>
      [] string = "group" -> <<103, 114, 111, 117, 112>>
      [] string = "participant" -> <<112, 97, 114, 116, 105, 99, 105, 112, 97, 110, 116>>
      [] string = "message" -> <<109, 101, 115, 115, 97, 103, 101>>

\* The entries of TOKENS that the nodes of the model use, at their index.
TOKENS ==
    (6 :> Str("action")) @@ (16 :> Str("chat")) @@ (24 :> Str("delete")) @@ (32 :> Str("g.us"))
       @@ (42 :> Str("jid")) @@ (77 :> Str("c.us")) @@ (88 :> Str("type"))
       @@ (7 :> Str("add")) @@ (10 :> Str("author")) @@ (13 :> Str("before"))
       @@ (22 :> Str("create")) @@ (25 :> Str("demote")) @@ (33 :> Str("group"))
       @@ (36 :> Str("id")) @@ (44 :> Str("last")) @@ (49 :> Str("message"))
       @@ (58 :> Str("participant")) @@ (64 :> Str("promote")) @@ (72 :> Str("relay"))
       @@ (73 :> Str("remove")) @@ (79 :> Str("set")) @@ (82 :> Str("subject"))
       @@ (104 :> Str("epoch"))

\* TOKENS.iter().position(|r| r == string): the index, or -1 for None.
TokenPosition(string) ==
    IF \E i \in DOMAIN TOKENS : TOKENS[i] = string
    THEN CHOOSE i \in DOMAIN TOKENS : TOKENS[i] = string
    ELSE -1

\* NodeContent and its variants.
NodeContent(variant, value) == [t |-> variant, v |-> value, g |-> FALSE]
ContentJid(id, is_group) == [t |-> "Jid", v |-> id, g |-> is_group]

\* Node::new; attributes is the sequence of the map's <<name, content>> pairs
\* in the order the HashMap iterates.
Node(desc, attributes, content) ==
    [desc |-> desc, attributes |-> attributes, content |-> content]

\* write_list_size(size: u16): 256 takes the LIST_8 arm and `size as u8`.
write_list_size(size) ==
    IF size = 0 THEN <<LIST_EMPTY>>
    ELSE IF size <= 256 THEN <<LIST_8, size % 256>>
    ELSE <<LIST_16, size \div 256, size % 256>>

write_node_binary(binary) ==
    LET len == Len(binary)
    IN  (IF len <= 255 THEN <<BINARY_8, len>>
         ELSE IF len <= 1048575
              THEN <<BINARY_20, (len \div 65536) % 256, (len \div 256) % 256, len % 256>>
              ELSE <<BINARY_32, (len \div 16777216) % 256, (len \div 65536) % 256,
                     (len \div 256) % 256, len % 256>>) \o binary

\* char_to_nibble; every other char panics, and the model has none.
char_to_nibble(c) ==
    IF c \in 48..57 THEN c - 48 ELSE IF c = 45 THEN 10 ELSE IF c = 46 THEN 11 ELSE 15

RECURSIVE write_nibbles(_, _)
write_nibbles(string, i) ==
    IF i > Len(string) THEN <<>>
    ELSE IF i = Len(string) THEN <<char_to_nibble(string[i]) * 16 + 15>>
    ELSE <<char_to_nibble(string[i]) * 16 + char_to_nibble(string[i + 1])>>
            \o write_nibbles(string, i + 2)

RECURSIVE write_node_content(_)
RECURSIVE write_nodes(_, _, _)
RECURSIVE write_attributes(_, _)
RECURSIVE serialize_stream(_)

\* write_list: list.len() as u16, then the nodes.
write_list(list) == write_list_size(Len(list) % 65536) \o write_nodes(list, 1, Len(list))

\* `for node in list { node.serialize_stream(stream)? }`: the bytes of
\* list[from..to], put together from the two halves of the range.
write_nodes(list, from, to) ==
    IF from > to THEN <<>>
    ELSE IF from = to THEN serialize_stream(list[from])
    ELSE write_nodes(list, from, (from + to) \div 2)
            \o write_nodes(list, (from + to) \div 2 + 1, to)

write_node_content(content) ==
    CASE content.t = "None" -> <<LIST_EMPTY>> \o write_list(<<>>)
      [] content.t = "List" -> write_list(content.v)
      [] content.t = "String" ->
            IF TokenPosition(content.v) >= 0
            THEN <<(TokenPosition(content.v) + 3) % 256>>
            ELSE write_node_binary(content.v)
      [] content.t = "Binary" -> write_node_binary(content.v)
      [] content.t = "Jid" ->
            <<JID_PAIR>> \o write_node_content(NodeContent("Nibble", content.v))
                         \o write_node_content(NodeContent("Token", IF content.g THEN Str("g.us")
                                                                          ELSE Str("c.us")))
      [] content.t = "Token" -> <<(TokenPosition(content.v) + 3) % 256>>
      [] content.t = "Nibble" ->
            LET len == (((Len(content.v) % 256) + 1) % 256) \div 2
            IN  <<NIBBLE_8, (((Len(content.v) % 256) % 2) * 128 + len) % 256>>
                   \o write_nibbles(content.v, 1)

write_attributes(attributes, i) ==
    IF i > Len(attributes) THEN <<>>
    ELSE write_node_content(NodeContent("String", attributes[i][1]))
            \o write_node_content(attributes[i][2])
            \o write_attributes(attributes, i + 1)

\* Node::serialize_stream (and Node::serialize, which returns its bytes).
serialize_stream(node) ==
    LET list_size == (IF node.content.t = "None" THEN 1 ELSE 2)
                        + Len(node.attributes) * 2
    IN  write_list_size(list_size % 65536)
           \o write_node_content(NodeContent("String", node.desc))
           \o write_attributes(node.attributes, 1)
           \o (IF node.content.t = "None" THEN <<>> ELSE write_node_content(node.content))

\* What a read returns: Ok(value) with the stream position after it, Err, or
\* a panic.
ReadOk(v, pos) == [st |-> "ok", v |-> v, pos |-> pos]
ReadErr == [st |-> "err", v |-> <<>>, pos |-> 0]
ReadPanic == [st |-> "panic", v |-> <<>>, pos |-> 0]

\* The stream holds n more bytes at pos (read_u8, read_exact: else Err).
HasBytes(bytes, pos, n) == pos + n - 1 <= Len(bytes)

\* read_list_size
read_list_size(tag, bytes, pos) ==
    CASE tag = LIST_EMPTY -> ReadOk(0, pos)
      [] tag = LIST_8 ->
            IF HasBytes(bytes, pos, 1) THEN ReadOk(bytes[pos], pos + 1) ELSE ReadErr
      [] tag = LIST_16 ->
            IF HasBytes(bytes, pos, 2)
            THEN ReadOk(bytes[pos] * 256 + bytes[pos + 1], pos + 2)
            ELSE ReadErr
      [] OTHER -> ReadErr

\* String::from_utf8(buffer).map(String).unwrap_or_else(Binary).  from_utf8
\* accepts the buffer when it is ASCII: the strings of the model are ASCII and
\* the only other byte its inputs hold is 255, which no UTF-8 text has.
StringOrBinary(buffer) ==
    IF \A i \in 1..Len(buffer) : buffer[i] < 128
    THEN NodeContent("String", buffer)
    ELSE NodeContent("Binary", buffer)

\* The length prefix of BINARY_8 / BINARY_20 / BINARY_32, then vec![0u8; len]
\* and read_exact.
read_buffer(tag, bytes, pos) ==
    LET len ==
          CASE tag = BINARY_8 ->
                  IF HasBytes(bytes, pos, 1) THEN ReadOk(bytes[pos], pos + 1) ELSE ReadErr
            [] tag = BINARY_20 ->
                  IF HasBytes(bytes, pos, 3)
                  THEN ReadOk((bytes[pos] % 16) * 65536 + bytes[pos + 1] * 256
                                 + bytes[pos + 2], pos + 3)
                  ELSE ReadErr
            [] OTHER ->
                  IF HasBytes(bytes, pos, 4)
                  THEN ReadOk(bytes[pos] * 16777216 + bytes[pos + 1] * 65536
                                 + bytes[pos + 2] * 256 + bytes[pos + 3], pos + 4)
                  ELSE ReadErr
    IN  IF len.st # "ok" THEN len
        ELSE IF HasBytes(bytes, len.pos, len.v)
             THEN ReadOk(SubSeq(bytes, len.pos, len.pos + len.v - 1), len.pos + len.v)
             ELSE ReadErr

\* nibble_to_char: the char, or -1 for `bail!`.
nibble_to_char(nibble) ==
    IF nibble \in 0..9 THEN 48 + nibble
    ELSE IF nibble = 10 THEN 45
    ELSE IF nibble = 11 THEN 46
    ELSE IF nibble = 15 THEN 0
    ELSE -1

\* The loop of the NIBBLE_8 | HEX_8 arm over the n bytes still to read.
RECURSIVE read_nibbles(_, _, _, _, _)
read_nibbles(tag, bytes, pos, n, string) ==
    IF n = 0 THEN ReadOk(NodeContent("String", string), pos)
    ELSE IF ~HasBytes(bytes, pos, 1) THEN ReadErr
    ELSE LET hi == bytes[pos] \div 16
             lo == bytes[pos] % 16
             \* char::from_digit(n, 16).to_ascii_uppercase()
             hex_char(d) == IF d < 10 THEN 48 + d ELSE 65 + d - 10
         IN  IF tag = HEX_8
             THEN read_nibbles(tag, bytes, pos + 1, n - 1,
                               string \o <<hex_char(hi), hex_char(lo)>>)
             ELSE IF nibble_to_char(hi) = -1 THEN ReadErr
             ELSE IF nibble_to_char(hi) = 0 THEN ReadOk(NodeContent("Nibble", string), pos + 1)
             ELSE IF nibble_to_char(lo) = -1 THEN ReadErr
             ELSE IF nibble_to_char(lo) = 0
                  THEN ReadOk(NodeContent("Nibble", Append(string, nibble_to_char(hi))), pos + 1)
             ELSE read_nibbles(tag, bytes, pos + 1, n - 1,
                               string \o <<nibble_to_char(hi), nibble_to_char(lo)>>)

\* NodeContent::into_cow / into_string: the text (Jid::to_string for a Jid),
\* or unimplemented!().
into_string(content) ==
    CASE content.t \in {"List", "Binary"} -> ReadPanic
      [] content.t = "Jid" ->
            ReadOk(content.v \o <<64>> \o (IF content.g THEN Str("g.us") ELSE Str("c.us")), 0)
      [] OTHER -> ReadOk(content.v, 0)

\* NodeContent::as_str: a Jid is unimplemented!() too.
as_str(content) ==
    IF content.t \in {"List", "Binary", "Jid"} THEN ReadPanic ELSE ReadOk(content.v, 0)

\* Jid::from_node_pair; "s.whatsapp.net" and "broadcast" are no strings of the model.
from_node_pair(id, surfix, pos) ==
    IF surfix = Str("c.us") THEN ReadOk(ContentJid(id, FALSE), pos)
    ELSE IF surfix = Str("g.us") THEN ReadOk(ContentJid(id, TRUE), pos)
    ELSE ReadErr

RECURSIVE read_node_content(_, _, _, _)
RECURSIVE read_nodes(_, _, _, _)
RECURSIVE read_attributes(_, _, _, _, _)
RECURSIVE deserialize_stream(_, _, _)

\* read_list
read_list(tag, bytes, pos, overflow_checks) ==
    LET with_list(list) ==
            IF list.st # "ok" THEN list ELSE ReadOk(NodeContent("List", list.v), list.pos)
        with_size(size) ==
            IF size.st # "ok" THEN size
            ELSE with_list(read_nodes(bytes, size.pos, size.v, overflow_checks))
    IN  with_size(read_list_size(tag, bytes, pos))

\* The loop of read_list: the next n nodes of the stream, the first half of
\* them and then the rest.
read_nodes(bytes, pos, n, overflow_checks) ==
    LET with_node(node) == IF node.st # "ok" THEN node ELSE ReadOk(<<node.v>>, node.pos)
        with_rest(first, rest) ==
            IF rest.st # "ok" THEN rest ELSE ReadOk(first.v \o rest.v, rest.pos)
        with_first(first) ==
            IF first.st # "ok" THEN first
            ELSE with_rest(first, read_nodes(bytes, first.pos, n - n \div 2, overflow_checks))
    IN  IF n = 0 THEN ReadOk(<<>>, pos)
        ELSE IF n = 1 THEN with_node(deserialize_stream(bytes, pos, overflow_checks))
        ELSE with_first(read_nodes(bytes, pos, n \div 2, overflow_checks))

\* read_node_content(tag, stream), the stream standing at pos.
read_node_content(tag, bytes, pos, overflow_checks) ==
    LET with_buffer(buffer) ==
            IF buffer.st # "ok" THEN buffer
            ELSE ReadOk(StringOrBinary(buffer.v), buffer.pos)
        \* Jid::from_node_pair(a.into_string(), b.as_str())
        with_pair(a, b) ==
            IF b.st # "ok" THEN b
            ELSE IF as_str(b.v).st # "ok" THEN ReadPanic
            ELSE from_node_pair(into_string(a.v).v, as_str(b.v).v, b.pos)
        with_first(a) ==
            IF a.st # "ok" THEN a
            ELSE IF into_string(a.v).st # "ok" THEN ReadPanic
            ELSE IF ~HasBytes(bytes, a.pos, 1) THEN ReadErr
            ELSE with_pair(a, read_node_content(bytes[a.pos], bytes, a.pos + 1,
                                                overflow_checks))
    IN  CASE tag \in 3..161 ->
                \* an entry of TOKENS the model does not list stands for itself
                ReadOk(NodeContent("Token", IF tag - 3 \in DOMAIN TOKENS THEN TOKENS[tag - 3]
                                                                  ELSE <<tag - 3>>), pos)
          [] tag \in DICTIONARY_0..DICTIONARY_3 ->
                IF HasBytes(bytes, pos, 1)
                THEN ReadOk(NodeContent("List", <<>>), pos + 1)
                ELSE ReadErr
          [] tag \in {LIST_EMPTY, LIST_8, LIST_16} -> read_list(tag, bytes, pos, overflow_checks)
          [] tag \in {BINARY_8, BINARY_20, BINARY_32} -> with_buffer(read_buffer(tag, bytes, pos))
          [] tag = JID_PAIR ->
                IF ~HasBytes(bytes, pos, 1) THEN ReadErr
                ELSE with_first(read_node_content(bytes[pos], bytes, pos + 1, overflow_checks))
          [] tag \in {NIBBLE_8, HEX_8} ->
                IF HasBytes(bytes, pos, 1)
                THEN read_nibbles(tag, bytes, pos + 1, bytes[pos] % 128, <<>>)
                ELSE ReadErr
          [] OTHER -> ReadErr

\* The loop of deserialize_stream over the n attributes still to read.
read_attributes(bytes, pos, n, attributes, overflow_checks) ==
    LET with_content(name, content) ==
            IF content.st # "ok" THEN content
            ELSE read_attributes(bytes, content.pos, n - 1,
                                 Append(attributes, <<into_string(name.v).v, content.v>>),
                                 overflow_checks)
        with_name(name) ==
            IF name.st # "ok" THEN name
            ELSE IF into_string(name.v).st # "ok" THEN ReadPanic
            ELSE IF ~HasBytes(bytes, name.pos, 1) THEN ReadErr
            ELSE with_content(name, read_node_content(bytes[name.pos], bytes, name.pos + 1,
                                                      overflow_checks))
    IN  IF n = 0 THEN ReadOk(attributes, pos)
        ELSE IF ~HasBytes(bytes, pos, 1) THEN ReadErr
        ELSE with_name(read_node_content(bytes[pos], bytes, pos + 1, overflow_checks))

\* Node::deserialize_stream.  `(list_size - 1) >> 1` on a list size of 0 is a
\* u16 underflow: a panic with overflow checks, 65535 >> 1 without.
deserialize_stream(bytes, pos, overflow_checks) ==
    LET with_content(desc, attributes, content) ==
            IF content.st # "ok" THEN content
            ELSE ReadOk(Node(into_string(desc.v).v, attributes.v, content.v), content.pos)
        \* a BINARY_* content stays NodeContent::Binary
        with_buffer(buffer) ==
            IF buffer.st # "ok" THEN buffer
            ELSE ReadOk(NodeContent("Binary", buffer.v), buffer.pos)
        with_tag(desc, attributes, tag) ==
            with_content(desc, attributes,
                         IF tag \in {BINARY_8, BINARY_20, BINARY_32}
                         THEN with_buffer(read_buffer(tag, bytes, attributes.pos + 1))
                         ELSE read_node_content(tag, bytes, attributes.pos + 1,
                                                overflow_checks))
        with_attributes(list_size, desc, attributes) ==
            IF attributes.st # "ok" THEN attributes
            ELSE IF list_size.v % 2 = 1
            THEN ReadOk(Node(into_string(desc.v).v, attributes.v, NodeContent("None", <<>>)),
                        attributes.pos)
            ELSE IF ~HasBytes(bytes, attributes.pos, 1) THEN ReadErr
            ELSE with_tag(desc, attributes, bytes[attributes.pos])
        with_desc(list_size, desc) ==
            IF desc.st # "ok" THEN desc
            ELSE IF into_string(desc.v).st # "ok" THEN ReadPanic
            ELSE IF list_size.v = 0 /\ overflow_checks THEN ReadPanic
            ELSE with_attributes(list_size, desc,
                                 read_attributes(bytes, desc.pos,
                                                 ((list_size.v + 65535) % 65536) \div 2,
                                                 <<>>, overflow_checks))
        with_size(list_size) ==
            IF list_size.st # "ok" THEN list_size
            ELSE IF ~HasBytes(bytes, list_size.pos, 1) THEN ReadErr
            ELSE with_desc(list_size,
                           read_node_content(bytes[list_size.pos], bytes, list_size.pos + 1,
                                             overflow_checks))
    IN  IF ~HasBytes(bytes, pos, 1) THEN ReadErr
        ELSE with_size(read_list_size(bytes[pos], bytes, pos + 1))

\* Node::deserialize
Node_deserialize(data, overflow_checks) == deserialize_stream(data, 1, overflow_checks)

\* ------------------------------------------------------------------ specification
WorkerNext ==
    \/ ws_on_connected
    \/ WorkerPoisoned
    \/ ws_on_disconnected
    \/ ws_connect_check
    \/ \E t \in Tags, response \in JsonResponses : RecvResponse(t, response)
    \/ \E secret \in Secrets : handle_server_conn(secret)
    \/ \E challenge \in Challenges : handle_server_challenge(challenge)
    \/ \E kind \in BOOLEAN : handle_server_disconnect(kind)
    \/ RecvPong
    \/ RecvMalformed
    \/ RecvUserData
    \/ \E n \in 0..MaxAcks : RecvMessageAck(n)
    \/ \E t \in Tags, content \in {"message", "contacts", "other"} :
          RecvBinary(t, TRUE, content)
    \/ RecvBinary(0, FALSE, "other")      \* a frame that fails the HMAC check
    \/ RunCallback
    \/ CallbackReenters
    \/ RunInitNew
    \/ RunInitPersistent
    \/ RunTeardown
    \/ RunUnimplemented

\* Every operation of the facade, called from thread c.
FacadeOp(c) ==
    \/ AppLock(c)
    \/ \E kind \in {"noop", "node_sink"} : AppSend(c, kind)
    \/ send_message_played(c)
    \/ send_message_played_relock(c)
    \/ \E kind \in {"noop", "json_sink"} : send_json_message(c, kind)
    \/ send_json_message_fails(c)
    \/ send_group_command(c)
    \/ DisconnectBegin(c)
    \/ DisconnectFinish(c)
    \/ CallerPoisoned(c)

\* The operations that carry an epoch.
EpochOp(c) ==
    \/ AppLock(c)
    \/ \E kind \in {"noop", "node_sink"} : AppSend(c, kind)
    \/ send_message_played(c)
    \/ send_message_played_relock(c)
    \/ send_group_command(c)
    \/ CallerPoisoned(c)

\* The session engine with one thread using the facade.
Next == WorkerNext \/ FacadeOp("c1")

Spec == Init /\ [][Next]_vars

\* The session with a worker thread that runs whenever it can: thread::spawn
\* of ws_connect gives the loop a thread of its own.
ReconnectSpec == Init /\ [][Next]_vars /\ WF_vars(WorkerNext)

\* One connection with the clock running: the socket opens, frames arrive,
\* timeouts expire, and one thread disconnects.
TimerNext ==
    \/ ws_on_connected
    \/ RecvPong
    \/ on_new_timeout
    \/ on_timeout
    \/ Tick
    \/ DisconnectBegin("c1")
    \/ DisconnectFinish("c1")

TimerSpec == Init /\ [][TimerNext]_vars

\* The session engine with every caller thread issuing application events.
ConcurrentNext == WorkerNext \/ \E c \in Callers : EpochOp(c)

ConcurrentSpec == Init /\ [][ConcurrentNext]_vars

\* ------------------------------------------------------------------ node codec runs
\* Every variable but calc.
machineVars == <<sessionVars, socketVars, timerVars, now, requestVars, epoch, lock,
                 poisoned, worker_pc, evq, cur, callerVars, wire, ghostVars>>

\* The nodes of the runs.  Contents: one or more of every variant of
\* NodeContent, and lists of none, few, and 255, 256 and 257 children
\* Node::new_empty("chat"), the sizes around the step from LIST_8 to LIST_16.
\* Attribute maps: empty, one entry, the two entries of tests::test_ser_de.
NodeInputs ==
    LET leaf == Node(Str("chat"), <<>>, NodeContent("None", <<>>))
        jid == ContentJid(<<49, 50, 45, 51>>, TRUE)          \* "12-3@g.us"
        contents ==
            {NodeContent("None", <<>>), NodeContent("String", Str("xyz")),
             NodeContent("String", Str("chat")), NodeContent("Binary", <<1, 2>>),
             NodeContent("Binary", <<255>>), jid, NodeContent("Token", Str("delete")),
             NodeContent("Nibble", <<49, 50, 51>>), NodeContent("Nibble", <<49, 50>>)}
               \cup {NodeContent("List", [i \in 1..n |-> leaf]) : n \in {0, 1, 2, 255, 256, 257}}
        maps ==
            {<<>>,
             <<<<Str("type"), NodeContent("Token", Str("delete"))>>>>,
             <<<<Str("type"), NodeContent("String", Str("xyz"))>>>>,
             <<<<Str("jid"), jid>>, <<Str("type"), NodeContent("Token", Str("delete"))>>>>}
    IN  {Node(desc, attributes, content) :
            desc \in {Str("action"), Str("xyz")}, attributes \in maps, content \in contents}

\* A node of NodeInputs is built; the build has overflow checks or has none.
CodecInit ==
    /\ SessionInit
    /\ session_state = "PendingNew"
    /\ calc \in {[fn |-> "node", stage |-> "built", node |-> n, overflow_checks |-> oc,
                  bytes |-> <<>>, out |-> ReadErr] :
                    n \in NodeInputs, oc \in BOOLEAN}

\* node.serialize()
NodeSerialize ==
    /\ calc.fn = "node"
    /\ calc.stage = "built"
    /\ calc' = [calc EXCEPT !.stage = "serialized", !.bytes = serialize_stream(calc.node)]
    /\ UNCHANGED machineVars

\* Node::deserialize(&bytes)
NodeDeserialize ==
    /\ calc.fn = "node"
    /\ calc.stage = "serialized"
    /\ calc' = [calc EXCEPT !.stage = "deserialized",
                            !.out = Node_deserialize(calc.bytes, calc.overflow_checks)]
    /\ UNCHANGED machineVars

CodecSpec == CodecInit /\ [][NodeSerialize \/ NodeDeserialize]_vars


\* ------------------------------------------------------------------ crypto.rs: frames
\* Frames are sequences of bytes: message_encrypted[..32] is the signature,
\* [32..48] the iv and [48..] the AES-256-CBC ciphertext with PKCS padding.
MacLen == 32           \* the length of a SHA-256 signature and of both keys
BlockLen == 16         \* the length of an AES block and of the iv

CryptoOk(v) == [st |-> "ok", v |-> v]
CryptoErr == [st |-> "err"]                   \* Err("Invalid mac")
CryptoPanic == [st |-> "panic"]               \* a failed unwrap or slice index

RECURSIVE xor(_, _)
xor(a, b) ==
    IF a = 0 THEN b
    ELSE IF b = 0 THEN a
    ELSE 2 * xor(a \div 2, b \div 2) + ((a + b) % 2)

\* HMAC-SHA256 of the ring crate, as a keyed digest of 32 bytes in which every
\* byte of the data and of the key takes part with an odd weight, so that the
\* signatures of two data that differ in one byte differ.
RECURSIVE hmac_digest(_, _, _)
hmac_digest(data, i, j) ==
    IF i > Len(data) THEN Len(data)
    ELSE (2 * ((i + j) % 128) + 1) * data[i] + hmac_digest(data, i + 1, j)

hmac_sign_bytes(key, data) ==
    [j \in 1..MacLen |-> (key[j] + hmac_digest(data, 1, j)) % 256]

hmac_verify_bytes_unchecked(key, data, signature) == TRUE

hmac_verify_bytes(key, data, signature) == signature = hmac_sign_bytes(key, data)

\* CBC over the AES block function of the rust-crypto crate; the block
\* function is a permutation of the blocks for each key.
RECURSIVE cbc_encrypt(_, _, _)
cbc_encrypt(key, prev, plain) ==
    IF plain = <<>> THEN <<>>
    ELSE LET block == [i \in 1..BlockLen |->
                         (xor(xor(plain[i], prev[i]), key[i]) + key[BlockLen + i]) % 256]
         IN  block \o cbc_encrypt(key, block, SubSeq(plain, BlockLen + 1, Len(plain)))

\* The inverse of the block function, then the previous block.
RECURSIVE cbc_decrypt(_, _, _)
cbc_decrypt(key, prev, input) ==
    IF input = <<>> THEN <<>>
    ELSE LET block == SubSeq(input, 1, BlockLen)
         IN  [i \in 1..BlockLen |->
                 xor(xor((block[i] + 256 - key[BlockLen + i]) % 256, key[i]), prev[i])]
                \o cbc_decrypt(key, block, SubSeq(input, BlockLen + 1, Len(input)))

\* aes_encrypt: the bytes written to an output buffer of `capacity` bytes (the
\* function returns their number).  blockmodes::PkcsPadding adds 1 to 16
\* bytes, each the number of bytes added.
aes_cbc_encrypt(key, iv, input, capacity) ==
    LET n == BlockLen - (Len(input) % BlockLen)
        written == cbc_encrypt(key, iv, input \o [i \in 1..n |-> n])
    IN  SubSeq(written, 1, IF capacity <= Len(written) THEN capacity ELSE Len(written))

\* aes_decrypt: decrypt(..).unwrap() panics on an input that is no whole number
\* of blocks or whose padding is invalid.
aes_cbc_decrypt(key, iv, input, capacity) ==
    IF Len(input) = 0 \/ Len(input) % BlockLen # 0 THEN CryptoPanic
    ELSE LET plain == cbc_decrypt(key, iv, input)
             n == plain[Len(plain)]
             size == Len(plain) - n
         IN  IF ~(/\ n \in 1..BlockLen
                  /\ \A i \in (size + 1)..Len(plain) : plain[i] = n)
             THEN CryptoPanic
             ELSE CryptoOk(SubSeq(plain, 1, IF capacity <= size THEN capacity ELSE size))

\* sign_and_encrypt_message, with the iv that SystemRandom filled in.
sign_and_encrypt_message(enc, mac, message, iv) ==
    LET ciphertext == aes_cbc_encrypt(enc, iv, message, Len(message) + 32)
        signed == iv \o ciphertext                     \* message_encrypted[32..]
    IN  hmac_sign_bytes(mac, signed) \o signed

verify_and_decrypt_message(enc, mac, message_encrypted) ==
    IF Len(message_encrypted) < MacLen THEN CryptoPanic
    ELSE IF ~hmac_verify_bytes(mac, SubSeq(message_encrypted, MacLen + 1, Len(message_encrypted)),
                               SubSeq(message_encrypted, 1, MacLen))
    THEN CryptoErr
    ELSE IF Len(message_encrypted) < MacLen + BlockLen THEN CryptoPanic
    ELSE aes_cbc_decrypt(enc,
                         SubSeq(message_encrypted, MacLen + 1, MacLen + BlockLen),
                         SubSeq(message_encrypted, MacLen + BlockLen + 1, Len(message_encrypted)),
                         Len(message_encrypted) - (MacLen + BlockLen))

\* ------------------------------------------------------------------ frame crypto runs
\* Keys and ivs as SystemRandom may fill them.
RandomBytes(len, seed) == [i \in 1..len |-> (seed * i + 7 * seed) % 256]

\* Two enc keys, two mac keys, and the plaintexts: empty, around one and two
\* blocks, the 30 bytes of tests::test_encrypt_decrypt_message, and two that
\* end like a padding.
CryptoInit ==
    /\ SessionInit
    /\ session_state = "PendingNew"
    /\ calc \in {[fn |-> "crypto", stage |-> "keys", enc |-> e, mac |-> m, message |-> p,
                  message_encrypted |-> <<>>, out |-> CryptoErr,
                  changed |-> <<>>, out_changed |-> CryptoOk(<<>>)] :
                    e \in {RandomBytes(MacLen, 3), RandomBytes(MacLen, 250)},
                    m \in {RandomBytes(MacLen, 0), RandomBytes(MacLen, 101)},
                    p \in {RandomBytes(n, 37) : n \in {0, 1, 15, 16, 17, 30, 32}}
                            \cup {<<9, 2, 2>>, [i \in 1..BlockLen |-> BlockLen]}}

\* let enc_msg = sign_and_encrypt_message(&enc, &mac, &msg);
SignAndEncrypt ==
    /\ calc.fn = "crypto"
    /\ calc.stage = "keys"
    /\ \E iv \in {RandomBytes(BlockLen, 0), RandomBytes(BlockLen, 77)} :
         calc' = [calc EXCEPT !.stage = "encrypted",
                    !.message_encrypted = sign_and_encrypt_message(calc.enc, calc.mac, calc.message, iv)]
    /\ UNCHANGED machineVars

\* let dec_msg = verify_and_decrypt_message(&enc, &mac, &enc_msg);
VerifyAndDecrypt ==
    /\ calc.fn = "crypto"
    /\ calc.stage = "encrypted"
    /\ calc' = [calc EXCEPT !.stage = "decrypted",
                  !.out = verify_and_decrypt_message(calc.enc, calc.mac, calc.message_encrypted)]
    /\ UNCHANGED machineVars

\* One byte of the signed and encrypted frame is changed, by 1, 128 or 255.
ChangeByte ==
    /\ calc.fn = "crypto"
    /\ calc.stage = "decrypted"
    /\ \E i \in 1..Len(calc.message_encrypted), d \in {1, 128, 255} :
         calc' = [calc EXCEPT !.stage = "changed",
                    !.changed = [calc.message_encrypted EXCEPT ![i] = (@ + d) % 256]]
    /\ UNCHANGED machineVars

\* verify_and_decrypt_message of the changed frame.
VerifyChanged ==
    /\ calc.fn = "crypto"
    /\ calc.stage = "changed"
    /\ calc' = [calc EXCEPT !.stage = "verified",
                  !.out_changed = verify_and_decrypt_message(calc.enc, calc.mac, calc.changed)]
    /\ UNCHANGED machineVars

CryptoSpec ==
    CryptoInit /\ [][SignAndEncrypt \/ VerifyAndDecrypt \/ ChangeByte \/ VerifyChanged]_vars


\* ------------------------------------------------------------------ claims
\* C1: once disconnect() has returned, the handler receives no further
\* invocation of any of its callbacks.
C1_NoHandlerAfterDisconnect ==
    disconnect_returned => ~handler_after_disconnect

\* C2: whenever the session state is Teardown the pending-request table is
\* empty.
C2_TornDownTableEmpty ==
    session_state = "Teardown" => requests = {}

\* C3: every tag written into the pending-request table is removed exactly
\* once, by a frame with its tag or by teardown: when the session is torn down
\* and the worker has left its loop, nothing is left in the table.
C3_EveryEntryRemoved ==
    (session_state = "Teardown" /\ worker_pc = "exit") => requests = {}

\* C4: no callback of the user (handler callback, request completion sink,
\* QR sink) is called while the calling thread holds the session lock.
C4_NoCallbackUnderLock ==
    ~(evq # <<>> /\ Head(evq).cb \in UserCallbacks /\ lock = WORKER)

\* C5: no facade operation tries to take the session lock while its own
\* thread already holds it.
C5_NoSelfDeadlock ==
    \A c \in Callers : c_pc[c] \in AtLockCall => lock # c

\* C6: once the session state is Teardown the reconnect worker starts no
\* further connection.
C6_NoConnectAfterTeardown ==
    [][session_state = "Teardown" =>
          ~(websocket_state = "Disconnected" /\ websocket_state' = "Connected")]_vars

\* C7: the only changes of the session state are PendingNew -> Established,
\* PendingPersistent -> Established, Established -> PendingPersistent when
\* the socket drops, and any state -> Teardown; so Teardown is never left and
\* PendingNew never entered.
C7_TransitionsAllowed ==
    [][session_state' # session_state =>
          \/ /\ session_state \in {"PendingNew", "PendingPersistent"}
             /\ session_state' = "Established"
          \/ /\ session_state = "Established"
             /\ session_state' = "PendingPersistent"
             /\ websocket_state = "Connected"
             /\ websocket_state' = "Disconnected"
          \/ session_state' = "Teardown"]_vars

\* A session that was paired, and then dropped by the socket.
C7_Witness ==
    /\ session_state = "PendingPersistent"
    /\ est_secret # NoSecret
    /\ websocket_state = "Disconnected"

\* The pairing HMAC check: secret[32..64] is the HMAC, under okm[32..64] of the
\* agreed key, of secret[0..32] || secret[64..144].
SecretAuthentic(secret) ==
    /\ secret.kind = "secret"
    /\ secret.hmac = hmac_sign(hkdf_mac(agree_ephemeral(secret.pub)),
                               <<secret.pub, secret.ct>>)

\* C8 as stated: the credentials of every Established session have passed
\* the pairing HMAC check.
C8_EstablishedKeysChecked ==
    session_state = "Established" =>
        /\ SecretAuthentic(est_secret)
        /\ persistent_session = aes_decrypt(hkdf_enc(agree_ephemeral(est_secret.pub)),
                                            est_secret.ct)

\* C8 amended: PendingNew -> Established happens only with the keys of a Conn
\* secret that passes the pairing HMAC check; PendingPersistent -> Established
\* keeps the keys of the stored credentials, unchecked.
C8_PairingChecked ==
    [][(session_state # "Established" /\ session_state' = "Established") =>
          IF session_state = "PendingNew"
          THEN /\ SecretAuthentic(est_secret')
               /\ persistent_session' =
                     aes_decrypt(hkdf_enc(agree_ephemeral(est_secret'.pub)), est_secret'.ct)
          ELSE /\ session_state = "PendingPersistent"
               /\ persistent_session' = persistent_session
               /\ est_secret' = est_secret]_vars

\* A session established by pairing.
C8_Witness ==
    /\ session_state = "Established"
    /\ est_secret # NoSecret
    /\ persistent_session \in Keys

\* C9: the epochs of the application events appear on the socket in strictly
\* increasing order.
C9_EpochsIncreasing ==
    \A i, j \in 1..Len(wire) : i < j => wire[i].epoch < wire[j].epoch

\* Two threads have each written an application event.
C9_Witness ==
    \E i, j \in 1..Len(wire) : i < j /\ wire[i].by # wire[j].by

\* C10: the epoch counter is reset on each transition to Established.
C10_EpochResetOnEstablished ==
    [][(session_state # "Established" /\ session_state' = "Established") =>
          epoch' = 0]_vars

\* The event loop of a connected socket is running.
LoopAlive == worker_pc = "loop" /\ websocket_state = "Connected" /\ ~poisoned

\* C11: on a connected socket, once no inbound frame has arrived for longer
\* than the Normal interval the probe "?,," has been written and the timer is
\* in Deathline mode; once the silence has lasted longer than the Normal and
\* the Deathline interval together, the socket has been asked to close.
C11_ProbeThenClose ==
    LoopAlive =>
        /\ now - last_inbound > PING_TIMEOUT.max
              => probes = 1 /\ tm.state = "Deathline"
        /\ now - last_inbound > PING_TIMEOUT.max + RESPONSE_TIMEOUT.max
              => close_requested

\* A silent socket that was probed and then closed abnormally.
C11_Witness ==
    /\ LoopAlive
    /\ now - last_inbound > PING_TIMEOUT.max
    /\ probes = 1
    /\ close_code = "Abnormal"
    /\ ~disconnect_returned

\* C12: after an inbound frame the timer is in Normal mode, whatever it was
\* before, and an expiry closes the socket only while a probe is unanswered:
\* an expiry that follows an inbound frame writes a probe.
C12_InboundResetsDeathline ==
    [][/\ (websocket_state' = "Connected" /\ probes' = 0) => tm'.state = "Normal"
       /\ (close_code' = "Abnormal" /\ close_code # "Abnormal")
             => (probes = 1 /\ tm.state = "Deathline")
       /\ (probes' > probes) => (probes = 0 /\ tm.state = "Normal")]_vars

\* A probe was answered, and the socket is open long after the Deathline the
\* probe had armed.
C12_Witness ==
    /\ LoopAlive
    /\ answered = 1
    /\ tm.state = "Normal"
    /\ now - last_inbound > RESPONSE_TIMEOUT.max
    /\ close_code = "none"

\* C13: after disconnect() has returned no timer expiry writes a probe or
\* asks the socket to close.
C13_TimerSilentAfterDisconnect ==
    [][disconnect_returned =>
          /\ probes' <= probes
          /\ ~(close_code' = "Abnormal" /\ close_code # "Abnormal")]_vars


\* What the event in progress has run, followed by what it has left to run.
EventTrace == cur.done \o evq

\* C14: while a peer Cmd disconnect is handled the session state is Teardown,
\* and what the handler has received and is about to receive is
\* on_state_changed(Disconnecting) followed by one on_disconnect(reason), the
\* reason being Replaced when the frame has a kind and Removed when it has none.
C14_PeerDisconnect ==
    cur.ev = "Disconnect" =>
        /\ session_state = "Teardown"
        /\ EventTrace = <<Cb("on_state_changed", "Disconnecting"),
                          Cb("on_disconnect",
                             IF cur.arg = "kind" THEN "Replaced" ELSE "Removed")>>

\* A Cmd disconnect with a kind: Disconnecting was delivered, Replaced is next.
C14_Witness ==
    /\ cur.ev = "Disconnect"
    /\ cur.arg = "kind"
    /\ cur.done = <<Cb("on_state_changed", "Disconnecting")>>
    /\ evq = <<Cb("on_disconnect", "Replaced")>>
    /\ session_state = "Teardown"


\* C15: the handler receives on_disconnect(reason) before the session state
\* becomes Teardown: whenever the event-loop thread has an on_disconnect to
\* deliver, the state is not Teardown yet.
C15_DisconnectBeforeTeardown ==
    \A i \in 1..Len(evq) : evq[i].cb = "on_disconnect" => session_state # "Teardown"


\* C16: when handle_server_conn of a pairing session gets a Conn frame whose
\* secret is missing, undecodable or fails the pairing HMAC check, the session
\* is on its way to Teardown and the handler is about to receive
\* on_disconnect(Removed).
C16_PairingFailureReported ==
    [][\A secret \in Secrets :
          (/\ session_state = "PendingNew"
           /\ ~SecretAuthentic(secret)
           /\ handle_server_conn(secret))
          => /\ session_state' = "Teardown" \/ Step("teardown") \in {evq'[i] : i \in 1..Len(evq')}
             /\ Cb("on_disconnect", "Removed") \in {evq'[i] : i \in 1..Len(evq')}]_vars


\* C17: while the completion of a rejected takeover login runs, what the
\* handler receives is on_state_changed(Disconnecting), then - after
\* ws_disconnect - on_disconnect(Removed); once ws_disconnect has run the
\* session state is Teardown, which holds no credentials, and the socket was
\* asked to close.
C17_LoginRejected ==
    (cur.ev = "JsonErr" /\ cur.arg = "login") =>
        /\ EventTrace = <<Cb("on_state_changed", "Disconnecting"),
                          Step("teardown"),
                          Cb("on_disconnect", "Removed")>>
        /\ Len(cur.done) >= 2 =>
              /\ session_state = "Teardown"
              /\ persistent_session = NoKeys
              /\ websocket_state = "Connected"
              /\ close_requested

\* The login was rejected, ws_disconnect has run, on_disconnect(Removed) is next.
C17_Witness ==
    /\ cur.ev = "JsonErr"
    /\ cur.arg = "login"
    /\ cur.done = <<Cb("on_state_changed", "Disconnecting"), Step("teardown")>>
    /\ evq = <<Cb("on_disconnect", "Removed")>>
    /\ session_state = "Teardown"
    /\ close_code = "Normal"
    /\ ~disconnect_returned


\* C18: when the socket of an Established session closes, the session state
\* becomes PendingPersistent with the credentials it had, and what the handler
\* is to receive for that close is one on_state_changed(Reconnecting).
C18_CloseReverts ==
    [][(/\ websocket_state = "Connected"
        /\ websocket_state' = "Disconnected"
        /\ session_state = "Established")
          => /\ session_state' = "PendingPersistent"
             /\ persistent_session' = persistent_session
             /\ evq' = <<Cb("on_state_changed", "Reconnecting")>>]_vars

\* The socket of an Established session has closed: Reconnecting is next.
C18_Witness ==
    /\ cur.ev = "Close"
    /\ websocket_state = "Disconnected"
    /\ session_state = "PendingPersistent"
    /\ persistent_session \in Keys
    /\ evq = <<Cb("on_state_changed", "Reconnecting")>>


\* C19: while an accepted Conn frame is handled the session state is already
\* Established (or Teardown, when a disconnect() got in between), and what the
\* handler has received and is about to receive is on_state_changed(Connected),
\* on_persistent_session_data_changed, on_user_data_changed(UserJid), in
\* this order.
C19_ConnCallbacks ==
    cur.ev = "Conn" =>
        /\ EventTrace = <<Cb("on_state_changed", "Connected"),
                          Cb("on_persistent_session_data_changed", "-"),
                          Cb("on_user_data_changed", "UserJid")>>
        /\ \/ session_state = "Established" /\ persistent_session \in Keys /\ user_jid
           \/ session_state = "Teardown" /\ disconnect_returned

\* Connected and the credentials were delivered, UserJid is next.
C19_Witness ==
    /\ cur.ev = "Conn"
    /\ session_state = "Established"
    /\ cur.done = <<Cb("on_state_changed", "Connected"),
                    Cb("on_persistent_session_data_changed", "-")>>
    /\ evq = <<Cb("on_user_data_changed", "UserJid")>>


\* C20: a frame that does not parse is dropped and nothing else happens: the
\* session state, the table of pending requests and the socket are what they
\* were, the event loop goes on to the next frame and the facade can still
\* take the lock.
C20_MalformedFrameSkipped ==
    [][RecvMalformed =>
          /\ session_state' = session_state
          /\ requests' = requests
          /\ websocket_state' = websocket_state
          /\ worker_pc' = "loop"
          /\ ~poisoned']_vars


\* C21: a binary frame whose HMAC does not verify is dropped and nothing else
\* happens: no handler event, no entry of the pending table consumed, the
\* session state as it was, the event loop and the facade still running.
C21_BadHmacFrameSkipped ==
    [][\A t \in Tags :
          (session_state = "Established" /\ RecvBinary(t, FALSE, "other"))
          => /\ evq' = <<>>
             /\ requests' = requests
             /\ session_state' = "Established"
             /\ worker_pc' = "loop"
             /\ ~poisoned']_vars


\* C22: a write that fails during a send neither ends the calling thread nor
\* makes the session unusable (the Mutex stays usable for the next call).
C22_SendFailureSurvived ==
    [][\A c \in Callers :
          send_json_message_fails(c) => (c_pc'[c] = "idle" /\ ~poisoned')]_vars


\* C23: Node::deserialize(node.serialize()) is Ok and equals the node, for
\* every node of NodeInputs.
C23_NodeRoundTrip ==
    (calc.fn = "node" /\ calc.stage = "deserialized")
        => (calc.out.st = "ok" /\ calc.out.v = calc.node)


\* C24: verify_and_decrypt_message gives back the plaintext that
\* sign_and_encrypt_message was given, under the same keys, and returns an
\* error for the frame with any one byte changed.
C24_FrameCryptoRoundTrip ==
    (calc.fn = "crypto") =>
        /\ calc.stage \in {"decrypted", "changed", "verified"} => calc.out = CryptoOk(calc.message)
        /\ calc.stage = "verified" => calc.out_changed = CryptoErr

C24_Witness ==
    /\ calc.fn = "crypto"
    /\ calc.stage = "verified"
    /\ Len(calc.message) = 30
    /\ calc.out = CryptoOk(calc.message)
    /\ \E i \in (MacLen + BlockLen + 1)..Len(calc.changed) : calc.changed[i] # calc.message_encrypted[i]
    /\ calc.out_changed = CryptoErr


\* C25: an inbound frame whose tag has an entry in the pending table removes
\* that entry and runs its completion, and no handler event of the
\* unsolicited dispatcher; stated here for binary frames.
C25_PendingEntryConsumed ==
    [][\A t \in Tags, h \in BOOLEAN :
         (HasTag(t) /\ RecvBinary(t, h, "other"))
            => /\ requests' = Remove(requests, t)
               /\ worker_pc' = "loop"
               /\ \A i \in 1..Len(evq') : evq'[i].cb \in {"sink", "step"}]_vars


\* C26: a binary frame is written only while the session is Established; an
\* application operation in any other state writes no frame and registers no
\* completion.
C26_BinaryOnlyEstablished ==
    [][/\ wire' # wire => session_state = "Established"
       /\ \A c \in Callers, kind \in {"noop", "node_sink"} :
            (session_state # "Established" /\ (AppSend(c, kind) \/ send_group_command(c)))
                => (requests' = requests /\ wire' = wire)]_vars

C26_Witness ==
    /\ session_state = "Established"
    /\ Len(wire) > 0
    /\ \E r \in requests : r[2] = "node_sink"


\* C27: the takeover login is sent only after the init request of the same
\* connection was answered with success: when the login is written, the init
\* request written last (that of the present connection) is not waiting for
\* its response.
C27_LoginAfterInitResponse ==
    [][(RunInitPersistent /\ requests' # requests)
          => ~(<<messages_tag_counter - 1, "init_pp">> \in requests)]_vars


\* C28 (as stated): the QR sink is called only while the completion of an init
\* request runs whose response had the success status 200 and a ref token.
C28_QrAfterSuccessStatus ==
    \A i \in 1..Len(evq) :
        evq[i].cb = "qr_callback" => (cur.arg = "init_new" /\ cur.ev = "JsonOk")

\* C28 (amended): the QR sink is called only while the completion of an init
\* request runs whose response had a ref token and a status that is 200 or
\* absent; it is called once, with "<ref>,<public key>,<client id>" of the
\* session's own key and client id, both base64.
C28_QrAfterInitResponse ==
    \A i \in 1..Len(evq) :
        evq[i].cb = "qr_callback" =>
            /\ cur.arg = "init_new"
            /\ cur.ev \in {"JsonOk", "JsonNoStatus"}
            /\ cur.done = <<[cb |-> "init_new", arg |-> "1@ref"]>>
            /\ evq = <<Cb("qr_callback", "1@ref,b64:public_key,b64:client_id")>>
            /\ session_state = "PendingNew"

C28_Witness ==
    /\ cur.ev = "JsonOk"
    /\ cur.arg = "init_new"
    /\ evq = <<Cb("qr_callback", "1@ref,b64:public_key,b64:client_id")>>


\* C29: a challenge handled while the session is PendingPersistent writes one
\* frame ["admin","challenge", signature, server_token, client_id] with the
\* signature of the challenge under the stored mac key and the stored
\* server_token and client_id, and leaves the state PendingPersistent; a Conn
\* frame handled in PendingPersistent moves the session to Established.
C29_ChallengeAnswered ==
    [][/\ \A challenge \in Challenges :
            handle_server_challenge(challenge) =>
                /\ session_state' = "PendingPersistent"
                /\ persistent_session' = persistent_session
                /\ messages_tag_counter' = messages_tag_counter + 1
                /\ requests' = requests \cup {<<messages_tag_counter, "noop">>}
                /\ cur'.arg = "[admin,challenge,b64:hmac(" \o persistent_session
                                 \o ".mac,challenge)," \o persistent_session
                                 \o ".server_token,b64:" \o persistent_session
                                 \o ".client_id]"
       /\ \A secret \in Secrets :
            (session_state = "PendingPersistent" /\ handle_server_conn(secret))
                => session_state' = "Established"]_vars

C29_Witness ==
    /\ session_state = "PendingPersistent"
    /\ persistent_session = "k2"
    /\ cur.ev = "Challenge"
    /\ cur.arg = "[admin,challenge,b64:hmac(k2.mac,challenge),k2.server_token,b64:k2.client_id]"
    /\ \E r \in requests : r[2] = "noop"


\* The connection of the worker is over: ws::connect has returned, or the
\* thread that ran it has ended in a panic while the socket was open.
ConnectionTerminated ==
    \/ worker_pc \in {"check", "sleep"}
    \/ worker_pc = "panicked" /\ websocket_state = "Connected"

\* C30: after a connection has terminated with the session not Teardown the
\* worker starts the next connection (unless the session is torn down first,
\* or the tags of the model are used up).
C30_ReconnectStarts ==
    (ConnectionTerminated /\ session_state # "Teardown")
        ~> (worker_pc = "loop" \/ session_state = "Teardown" \/ messages_tag_counter = MaxTag)


\* ------------------------------------------------------------------ connection.rs: tags
\* messages_tag_counter is a u32, held here as its two 16-bit halves
\* <<high, low>>.  A build has overflow checks (`+= 1` on u32::MAX panics) or
\* has none (it wraps to 0).
MaxAllocs == 3         \* allocations of one run

\* u32::to_string: the decimal digits, as chars.
RECURSIVE to_string(_)
to_string(n) ==
    LET t == (n[1] % 10) * 65536 + n[2]
        quotient == <<n[1] \div 10, t \div 10>>
    IN  IF quotient = <<0, 0>> THEN <<48 + (t % 10)>>
        ELSE Append(to_string(quotient), 48 + (t % 10))

\* alloc_message_tag on a counter: the tag and the counter after it.
alloc_message_tag(counter, overflow_checks) ==
    IF counter = <<65535, 65535>>
    THEN IF overflow_checks
         THEN [st |-> "panic", tag |-> <<>>, counter |-> counter]
         ELSE [st |-> "ok", tag |-> to_string(counter), counter |-> <<0, 0>>]
    ELSE [st |-> "ok", tag |-> to_string(counter),
          counter |-> IF counter[2] = 65535 THEN <<counter[1] + 1, 0>>
                      ELSE <<counter[1], counter[2] + 1>>]

\* A connection object whose counter stands at 0 (new), or before a step in
\* the number of decimal digits, or before a carry between the halves, or
\* before u32::MAX.
TagInit ==
    /\ SessionInit
    /\ session_state = "PendingNew"
    /\ calc \in {[fn |-> "tag", messages_tag_counter |-> <<high, low>>,
                  overflow_checks |-> oc, tags |-> <<>>, panicked |-> FALSE] :
                    high \in {0, 1, 65535},
                    low \in {0, 1, 8, 9, 98, 99, 998, 999, 9999, 65533, 65534, 65535},
                    oc \in BOOLEAN}

\* let tag = self.alloc_message_tag();
AllocTag ==
    /\ calc.fn = "tag"
    /\ ~calc.panicked
    /\ Len(calc.tags) < MaxAllocs
    /\ LET r == alloc_message_tag(calc.messages_tag_counter, calc.overflow_checks)
       IN  calc' = [calc EXCEPT !.messages_tag_counter = r.counter,
                                !.panicked = (r.st = "panic"),
                                !.tags = IF r.st = "ok" THEN Append(@, r.tag) ELSE @]
    /\ UNCHANGED machineVars

TagSpec == TagInit /\ [][AllocTag]_vars

\* C31: the tags a connection object allocates are decimal strings that are
\* strictly increasing as numbers (a longer one is larger, equally long ones
\* compare digit by digit), so none is allocated twice.
C31_TagsIncreasing ==
    calc.fn = "tag" =>
        \A i, j \in 1..Len(calc.tags) :
            i < j =>
                LET a == calc.tags[i]
                    b == calc.tags[j]
                IN  \/ Len(a) < Len(b)
                    \/ /\ Len(a) = Len(b)
                       /\ \E k \in 1..Len(a) :
                            /\ a[k] < b[k]
                            /\ \A m \in 1..(k - 1) : a[m] = b[m]


\* ------------------------------------------------------------------ node_protocol.rs
\* An AppMessage::MessagesEvents(Some(typ), events).  Events of the model:
\* [kind |-> "Message", proto] and [kind |-> "GroupCommand", inducer, id,
\* participants, command]; a command is [kind |-> "Create", subject] or
\* [kind |-> "ParticipantsChange", jid, change].  Attribute maps are written
\* in the order of the inserts.

\* A serialize that leaves the events out.
AppMessage_serialize_no_events(typ, events, epoch_arg) ==
    Node(Str("action"), <<<<Str("epoch"), NodeContent("String", to_string(epoch_arg))>>>>,
         NodeContent("List", <<>>))

\* AppMessage::serialize(self, epoch), with MessageEventType::into_node and
\* GroupParticipantsChange::into_node.
AppMessage_serialize(typ, events, epoch_arg) ==
    LET MessageEventType_into_node ==
            CASE typ = "Last" -> Str("last") [] typ = "Before" -> Str("before")
              [] typ = "Relay" -> Str("relay") [] typ = "Set" -> Str("set")
        GroupParticipantsChange_into_node(change) ==
            CASE change = "Add" -> Str("add") [] change = "Remove" -> Str("remote")
              [] change = "Promote" -> Str("promote") [] change = "Demote" -> Str("demote")
        participant(jid) ==
            Node(Str("participant"), <<<<Str("jid"), jid>>>>, NodeContent("None", <<>>))
        group(event) ==
            Node(Str("group"),
                 (IF event.command.kind = "Create"
                  THEN <<<<Str("subject"), NodeContent("String", event.command.subject)>>,
                         <<Str("type"), NodeContent("Token", Str("create"))>>>>
                  ELSE <<<<Str("type"),
                           NodeContent("Token",
                                       GroupParticipantsChange_into_node(event.command.change))>>,
                         <<Str("jid"), event.command.jid>>>>)
                    \o <<<<Str("author"), event.inducer>>,
                         <<Str("id"), NodeContent("String", event.id)>>>>,
                 NodeContent("List", [i \in 1..Len(event.participants) |->
                                         participant(event.participants[i])]))
        node(event) ==
            IF event.kind = "Message"
            THEN Node(Str("message"), <<>>, NodeContent("Binary", event.proto))
            ELSE group(event)
    IN  Node(Str("action"),
             <<<<Str("epoch"), NodeContent("String", to_string(epoch_arg))>>,
               <<Str("type"), NodeContent("Token", MessageEventType_into_node)>>>>,
             NodeContent("List", [i \in 1..Len(events) |-> node(events[i])]))

\* The `.unwrap()` of write_node_content's Token arm fails somewhere in
\* node.serialize(): a Token that is no entry of TOKENS.
RECURSIVE serialize_panics(_)
serialize_panics(node) ==
    LET no_token(content) == content.t = "Token" /\ TokenPosition(content.v) < 0
    IN  \/ \E i \in 1..Len(node.attributes) : no_token(node.attributes[i][2])
        \/ no_token(node.content)
        \/ /\ node.content.t = "List"
           /\ \E i \in 1..Len(node.content.v) : serialize_panics(node.content.v[i])

\* AppMessage::deserialize(root_node) of an "action" node: the event type is
\* read from the attribute "add".  Of the children the model has "message"
\* (a ChatMessage when its content is Binary, else bail!) and descs that no
\* arm matches.  Every other root desc of the model is the `_ => bail!` arm.
AppMessage_deserialize(root_node) ==
    LET attribute(key) ==
            {root_node.attributes[i][2] : i \in {j \in 1..Len(root_node.attributes) :
                                                    root_node.attributes[j][1] = key}}
        MessageEventType_from_node(value) ==
            CASE value = Str("last") -> "Last" [] value = Str("before") -> "Before"
              [] value = Str("relay") -> "Relay" [] value = Str("set") -> "Set"
              [] OTHER -> "None"
        event_type ==
            IF attribute(Str("add")) = {} THEN "None"
            ELSE MessageEventType_from_node((CHOOSE add \in attribute(Str("add")) : TRUE).v)
        list == root_node.content.v
        messages == {i \in 1..Len(list) : list[i].desc = Str("message")}
    IN  IF root_node.desc # Str("action") \/ root_node.content.t # "List"
        THEN [st |-> "err", event_type |-> "None", events |-> <<>>]
        ELSE IF \E i \in messages : list[i].content.t # "Binary"
        THEN [st |-> "err", event_type |-> "None", events |-> <<>>]
        ELSE [st |-> "ok", event_type |-> event_type,
              events |-> [i \in 1..Cardinality(messages) |-> "Message"]]

\* The inputs.  A group command is sent on a connected socket by a session
\* that is Established (and then has its user_jid) or is not (and has its
\* user_jid from an earlier login, or has none); an events
\* message is built by the client, or its node comes from the peer with the
\* batch type in the attribute "type" or in the attribute "add".
AppInit ==
    LET jid(id) == ContentJid(id, FALSE)
        group_jid == ContentJid(<<49, 45, 50>>, TRUE)                   \* "1-2@g.us"
        members == {<<>>, <<jid(<<49>>)>>, <<jid(<<49>>), jid(<<50>>)>>,
                    <<jid(<<50>>), jid(<<49>>)>>}
        commands ==
            {[kind |-> "Create", subject |-> s] : s \in {Str("xyz"), Str("chat")}}
               \cup {[kind |-> "ParticipantsChange", jid |-> group_jid, change |-> c] :
                        c \in {"Add", "Remove", "Promote", "Demote"}}
        message == [kind |-> "Message", proto |-> <<10, 1, 255>>]
        peer_action(key, value) ==
            Node(Str("action"), <<<<key, NodeContent("Token", value)>>>>,
                 NodeContent("List", <<Node(Str("message"), <<>>,
                                            NodeContent("Binary", message.proto))>>))
    IN  /\ SessionInit
        /\ session_state = "PendingNew"
        /\ calc \in
             {[fn |-> "group", stage |-> "call", established |-> est[1], user_jid |-> est[2],
               command |-> c, participants |-> m, messages_tag_counter |-> <<0, t>>,
               epoch |-> <<0, e>>, frames |-> <<>>, panicked |-> FALSE] :
                 est \in {<<TRUE, jid(<<57>>)>>, <<FALSE, jid(<<57>>)>>,
                          <<FALSE, NodeContent("None", <<>>)>>},
                 c \in commands, m \in members, t \in {0, 9}, e \in {0, 99}}
             \cup
             {[fn |-> "events", stage |-> "app_message", typ |-> typ, events |-> ev,
               epoch |-> <<0, 1>>, node |-> <<>>, out |-> <<>>, on_message |-> <<>>] :
                 typ \in {"Last", "Before", "Relay", "Set"}, ev \in {<<>>, <<message>>}}
             \cup
             {[fn |-> "events", stage |-> "node", typ |-> "peer", events |-> <<>>,
               epoch |-> <<0, 1>>, node |-> peer_action(key, value), out |-> <<>>,
               on_message |-> <<>>] :
                 key \in {Str("type"), Str("add")},
                 value \in {Str("last"), Str("before"), Str("relay"), Str("set")}}

\* inner.send_group_command(command, participants), as group_create and
\* group_participants_change call it, with send_app_message,
\* send_node_message, send_binary_message and ws_send_message.
SendGroupCommand ==
    /\ calc.fn = "group"
    /\ calc.stage = "call"
    /\ LET alloc == alloc_message_tag(calc.messages_tag_counter, TRUE)
           app_event == [kind |-> "GroupCommand", inducer |-> calc.user_jid, id |-> alloc.tag,
                         participants |-> calc.participants, command |-> calc.command]
           epoch_after == <<calc.epoch[1], calc.epoch[2] + 1>>
           node == AppMessage_serialize("Set", <<app_event>>, epoch_after)
           \* user_jid.clone().unwrap() comes before self.epoch += 1, and
           \* node.serialize() before the state check of send_binary_message
           unwrap_none == calc.user_jid.t = "None"
           panics == unwrap_none \/ serialize_panics(node)
       IN  calc' = [calc EXCEPT
                      !.stage = "returned",
                      !.messages_tag_counter = alloc.counter,
                      !.epoch = IF unwrap_none THEN @ ELSE epoch_after,
                      !.panicked = panics,
                      !.frames = IF calc.established /\ ~panics
                                 THEN Append(@, [tag |-> alloc.tag, metric |-> "Group",
                                                 node |-> node,
                                                 bytes |-> serialize_stream(node)])
                                 ELSE @]
    /\ UNCHANGED machineVars

\* app_message.serialize(epoch)
AppSerialize ==
    /\ calc.fn = "events"
    /\ calc.stage = "app_message"
    /\ calc' = [calc EXCEPT !.stage = "node",
                            !.node = AppMessage_serialize(calc.typ, calc.events, calc.epoch)]
    /\ UNCHANGED machineVars

\* ws_on_message, BinarySimple without a pending entry:
\* AppMessage::deserialize(payload), then on_message(event_type == Some(Relay), ..)
\* for every Message event.
AppDeserialize ==
    /\ calc.fn = "events"
    /\ calc.stage = "node"
    /\ LET out == AppMessage_deserialize(calc.node)
       IN  calc' = [calc EXCEPT !.stage = "delivered", !.out = out,
                                !.on_message = [i \in 1..Len(out.events) |->
                                                  out.event_type = "Relay"]]
    /\ UNCHANGED machineVars

AppSpec == AppInit /\ [][SendGroupCommand \/ AppSerialize \/ AppDeserialize]_vars


\* C32: group_create in an Established session emits exactly one frame: an
\* action node with type set and the current epoch, holding one group node
\* with type create, the subject, the session's own jid as author, the tag
\* of the frame as id, and one participant child per member, in order.
C32_GroupCreateFrame ==
    (calc.fn = "group" /\ calc.stage = "returned" /\ calc.established
        /\ calc.command.kind = "Create") =>
        /\ ~calc.panicked
        /\ Len(calc.frames) = 1
        /\ LET frame == calc.frames[1]
               attributes(n) == {n.attributes[i] : i \in 1..Len(n.attributes)}
               group == frame.node.content.v[1]
           IN  /\ frame.node.desc = Str("action")
               /\ Len(frame.node.attributes) = 2
               /\ attributes(frame.node)
                    = {<<Str("type"), NodeContent("Token", Str("set"))>>,
                       <<Str("epoch"), NodeContent("String", to_string(calc.epoch))>>}
               /\ frame.node.content.t = "List"
               /\ Len(frame.node.content.v) = 1
               /\ group.desc = Str("group")
               /\ Len(group.attributes) = 4
               /\ attributes(group)
                    = {<<Str("type"), NodeContent("Token", Str("create"))>>,
                       <<Str("subject"), NodeContent("String", calc.command.subject)>>,
                       <<Str("author"), calc.user_jid>>,
                       <<Str("id"), NodeContent("String", frame.tag)>>}
               /\ group.content.t = "List"
               /\ Len(group.content.v) = Len(calc.participants)
               /\ \A i \in 1..Len(calc.participants) :
                    group.content.v[i]
                      = Node(Str("participant"), <<<<Str("jid"), calc.participants[i]>>>>,
                             NodeContent("None", <<>>))

C32_Witness ==
    /\ calc.fn = "group"
    /\ calc.stage = "returned"
    /\ calc.established
    /\ calc.command = [kind |-> "Create", subject |-> Str("xyz")]
    /\ calc.participants = <<ContentJid(<<50>>, FALSE), ContentJid(<<49>>, FALSE)>>
    /\ Len(calc.frames) = 1
    /\ calc.frames[1].tag = <<57>>
    /\ calc.epoch = <<0, 100>>
    /\ calc.messages_tag_counter = <<0, 10>>


\* C33: for every participants change kind, group_participants_change in an
\* Established session writes one frame without failure, and the type
\* attribute of its group node is the name of the kind: add, remove, promote
\* or demote.
C33_ParticipantsChangeType ==
    (calc.fn = "group" /\ calc.stage = "returned" /\ calc.established
        /\ calc.command.kind = "ParticipantsChange") =>
        /\ ~calc.panicked
        /\ Len(calc.frames) = 1
        /\ LET group == calc.frames[1].node.content.v[1]
               name == CASE calc.command.change = "Add" -> Str("add")
                         [] calc.command.change = "Remove" -> Str("remove")
                         [] calc.command.change = "Promote" -> Str("promote")
                         [] calc.command.change = "Demote" -> Str("demote")
           IN  /\ group.desc = Str("group")
               /\ \E i \in 1..Len(group.attributes) :
                    group.attributes[i] = <<Str("type"), NodeContent("Token", name)>>

\* C34: decoding the action node that the encoder produces for the batch
\* type T yields T, for T in {last, before, relay, set}; and an inbound
\* action whose type attribute is relay is delivered to on_message with the
\* relayed flag true.
C34_BatchTypeBothDirections ==
    (calc.fn = "events" /\ calc.stage = "delivered") =>
        /\ calc.typ # "peer" => (calc.out.st = "ok" /\ calc.out.event_type = calc.typ)
        /\ (\E i \in 1..Len(calc.node.attributes) :
               calc.node.attributes[i] = <<Str("type"), NodeContent("Token", Str("relay"))>>)
             => (Len(calc.on_message) = Len(calc.node.content.v)
                   /\ \A i \in 1..Len(calc.on_message) : calc.on_message[i])


\* C35: an Established session has a Connected socket.  Established is
\* entered only by handle_server_conn, in the event loop of a connected
\* socket, and the step that marks the socket Disconnected leaves
\* Established.
C35_EstablishedIsConnected ==
    [][/\ session_state' = "Established" => websocket_state' = "Connected"
       /\ (session_state # "Established" /\ session_state' = "Established")
            => /\ websocket_state = "Connected"
               /\ worker_pc = "loop"
               /\ \E secret \in Secrets : handle_server_conn(secret)
       /\ (websocket_state = "Connected" /\ websocket_state' = "Disconnected")
            => session_state' # "Established"]_vars

\* The socket of an Established session was closed after a frame was written
\* on it.
C35_Witness ==
    /\ cur.ev = "Close"
    /\ websocket_state = "Disconnected"
    /\ session_state = "PendingPersistent"
    /\ user_jid
    /\ Len(wire) > 0


\* C36: the completion of an init request runs in the state that sent the
\* request: PendingNew for the pairing init, PendingPersistent for the
\* resuming init, and never in Established or Teardown.
C36_InitCompletionInSenderState ==
    [][/\ RunInitNew => session_state = "PendingNew"
       /\ RunInitPersistent => session_state = "PendingPersistent"]_vars


\* C37: when a new connection is opened the pending table holds no entry of
\* an earlier connection: after ws_on_connected it holds at most the init
\* request that ws_on_connected itself has registered.
C37_NoCompletionAcrossConnections ==
    [][ws_on_connected =>
          \A r \in requests' : r[1] = messages_tag_counter /\ r[2] \in {"init_new", "init_pp"}]_vars


\* C38: the expiry of a timeout whose token is not the timer's current token
\* writes no probe, closes nothing and leaves the timer as it is; and when an
\* arm moves the timer to a new token, every timeout scheduled before has a
\* token that is not the current one.
C38_StaleExpiryIgnored ==
    [][/\ (on_timeout /\ \E x \in timeouts : x \notin timeouts' /\ x.token # tm.token)
            => UNCHANGED <<probes, close_requested, close_code, websocket_state, tm>>
       /\ (tm # NoTimer /\ tm' # NoTimer /\ websocket_state = "Connected"
             /\ tm'.token # tm.token)
            => \A x \in timeouts : x.token # tm'.token]_vars

\* A timeout that a later arm has superseded is announced and due while the
\* timer runs under a newer token.
C38_Witness ==
    /\ LoopIdle
    /\ tm # NoTimer
    /\ \E x \in timeouts : x.announced /\ x.at <= now /\ x.token # tm.token


\* C39: a Conn frame that arrives in PendingNew with a secret that fails the
\* pairing HMAC check leaves the session in PendingNew with its private key
\* still held, and a Conn frame with an authentic secret that arrives in
\* PendingNew - also after such a failure - makes the session Established.
C39_PairingSurvivesBadConn ==
    [][\A secret \in Secrets :
          (/\ session_state = "PendingNew"
           /\ secret.kind = "secret"
           /\ handle_server_conn(secret))
          => /\ ~SecretAuthentic(secret)
                  => session_state' = "PendingNew" /\ private_key' = private_key
             /\ SecretAuthentic(secret)
                  => session_state' = "Established" /\ worker_pc' = worker_pc]_vars


\* WhatsappWebConnection::state: the State the facade reports for the session
\* state it finds under the lock.
state ==
    CASE session_state = "PendingNew" -> "Uninitialized"
      [] session_state = "PendingPersistent" -> "Reconnecting"
      [] session_state = "Established" -> "Connected"
      [] session_state = "Teardown" -> "Disconnecting"

\* C40: at the moment the handler receives on_state_changed(s) - from the
\* event-loop thread or, for disconnect(), from the calling thread - state()
\* returns s.
C40_StateMatchesCallback ==
    [][/\ (RunCallback /\ Head(evq).cb = "on_state_changed") => state = Head(evq).arg
       /\ (\E c \in Callers : DisconnectBegin(c)) => state = "Disconnecting"]_vars

=============================================================================
